---------------------------- MODULE Spec2Model ----------------------------
(***************************************************************************)
(* A model of the kilua editor core (src/kilua.c): the rows of the current *)
(* buffer with their rendered form and highlight tags, the cursor, the     *)
(* viewport, the mark, the dirty counter and the file the buffer is saved  *)
(* to and loaded from.                                                     *)
(*                                                                         *)
(* Bytes are their ASCII codes.  A C string is the sequence of its bytes   *)
(* without the terminating NUL; index i of the C code is index i+1 here.   *)
(* The build modelled is the default one (neither _UNDO nor _REGEXP).      *)
(* The editor holds a list of buffers, the first of them *Messages*, where *)
(* editorSetStatusMessage types the status lines it logs; the sessions on  *)
(* a single file buffer start after that buffer was killed.                *)
(***************************************************************************)
EXTENDS Integers, Sequences, FiniteSets, TLC

(* ------------------------------ bounds -------------------------------- *)
\* Terminal geometry: E.screenrows (status lines already taken off), E.screencols.
ScreenRows == 2
ScreenCols == 2
\* Most rows of a buffer and most bytes of a row in an editing session.
MaxRows == 3
MaxLen == 3
\* The dirty counter is an int; edits stop when it reaches this cap.
MaxDirty == 9
MaxFileLen == 3
MaxFileDirty == 2
MaxShort == 1
SelRows == 2
SelCols == 3
MaxSelLen == 3
MaxSynLen == 4
MaxTabLen == 5
MaxTyped == 4
\* A buffer session: the buffers of the editor and the lines its script logs.
MaxFiles == 3
MaxLog == 1
\* A key session: the keys a sub-loop reads.
MaxKeys == 2
\* A killing session: the bytes of the file.
MaxKillLen == 4
\* A keyboard session: the bytes the terminal sends.
MaxReadLen == 4
\* An editing session with a syntax: the bytes of the file and the edits.
MaxEditLen == 4
MaxEditDirty == 2
\* An undoing session: the bytes of the file.
MaxWideLen == 5
\* A session of two views: the bytes of the file.
MaxTwinLen == 3
\* A session of strings: the bytes of the file.
MaxStringLen == 3

(* --------------------------- program constants ------------------------ *)
HL_NORMAL == 0
HL_NONPRINT == 1
HL_COMMENT == 2
HL_MLCOMMENT == 3
HL_KEYWORD1 == 4
HL_KEYWORD2 == 5
HL_STRING == 6
HL_NUMBER == 7
HL_MATCH == 8
HL_SELECTION == 9

NUL == 0
TAB == 9
NL == 10
CR == 13
ARROW_LEFT == 1000
ARROW_RIGHT == 1001
ARROW_UP == 1002
ARROW_DOWN == 1003
DEL_KEY == 1004
HOME_KEY == 1005
END_KEY == 1006
PAGE_UP == 1007
PAGE_DOWN == 1008
CTRL_H == 8
ENTER == 13
ESC == 27
BACKSPACE == 127
KILO_QUERY_LEN == 256

\* The tab width create_buffer_lua gives a new buffer.
DefaultTabSize == 8

(* ------------------------------- bytes -------------------------------- *)
isspace(c) == c \in {32, 9, 10, 11, 12, 13}
isdigit(c) == c >= 48 /\ c <= 57

\* ":{},.()+-/*=~%[];<>|&" as byte codes.
SeparatorChars == {58, 123, 125, 44, 46, 40, 41, 43, 45, 47, 42, 61, 126, 37,
                   91, 93, 59, 60, 62, 124, 38}

is_separator(c) == c = NUL \/ isspace(c) \/ c \in SeparatorChars

\* s[i] of a NUL-terminated C string held in a buffer of Len(s)+1 bytes.
CharAt(s, i) == IF i >= 0 /\ i < Len(s) THEN s[i + 1] ELSE NUL

\* strlen(s): the index of the first NUL byte.
RECURSIVE StrLenFrom(_, _)
StrLenFrom(s, i) == IF i >= Len(s) \/ s[i + 1] = NUL THEN i ELSE StrLenFrom(s, i + 1)

StrLen(s) == StrLenFrom(s, 0)

\* strncmp(s + i, t, Len(t)) == 0, for a t without NUL bytes.
MatchAt(s, i, t) ==
    /\ i >= 0
    /\ i + Len(t) <= Len(s)
    /\ \A k \in 1..Len(t) : s[i + k] = t[k]

Repeat(c, n) == [k \in 1..n |-> c]


(* ------------------------- rows: render and hl ------------------------ *)
\* The render loop of editorUpdateRow over chars[j..], idx bytes written so far.
RECURSIVE RenderFrom(_, _, _, _)
RenderFrom(chars, j, out, tab_size) ==
    IF j > Len(chars) THEN out
    ELSE IF chars[j] = TAB
         THEN LET first == Append(out, 32)
                  \* while ((idx + 1) % tab_size != 0) render[idx++] = ' '
                  pad == CHOOSE n \in 0..tab_size :
                             /\ (Len(first) + n + 1) % tab_size = 0
                             /\ \A m \in 0..(n - 1) : (Len(first) + m + 1) % tab_size # 0
              IN RenderFrom(chars, j + 1, first \o Repeat(32, pad), tab_size)
         ELSE RenderFrom(chars, j + 1, Append(out, chars[j]), tab_size)

\* The rendered form of a row's bytes: TABs widened to spaces, and so the bytes
\* themselves when there is no TAB.
\* With a tab_size of zero the padding loop divides by zero, and with a negative one
\* render is allocated too small for the bytes the loop writes: NoTabStops.  The
\* row is then whatever the build makes of it; UpdateRowSized records the fault.
NoTabStops(chars, tab_size) == tab_size <= 0 /\ \E j \in 1..Len(chars) : chars[j] = TAB

Render(chars, tab_size) ==
    IF \A j \in 1..Len(chars) : chars[j] # TAB THEN chars
    ELSE IF tab_size <= 0 THEN [j \in 1..Len(chars) |-> IF chars[j] = TAB THEN 32 ELSE chars[j]]
    ELSE RenderFrom(chars, 1, <<>>, tab_size)

\* One row as editorInsertRow leaves it before its first render.
NewRow(at, s) == [idx |-> at, chars |-> s, render |-> <<>>, hl |-> <<>>, hl_oc |-> FALSE]

NoSyntax == [on |-> FALSE, scs |-> <<>>, mcs |-> <<>>, mce |-> <<>>,
             keywords |-> <<>>, strings |-> FALSE, numbers |-> FALSE]

\* hl[i] = v; a write at or past rsize lands outside the array.
SetHl(hl, i, v) == IF i >= 0 /\ i < Len(hl) THEN [hl EXCEPT ![i + 1] = v] ELSE hl

SetHlRange(hl, i, n, v) ==
    [k \in 1..Len(hl) |-> IF k - 1 >= i /\ k - 1 < i + n THEN v ELSE hl[k]]

\* Replace the row held at position at (0-based) of the row array.
SetRow(f, at, r) == [f EXCEPT !.row[at + 1] = r]

RECURSIVE editorRowHasOpenComment(_, _)
editorRowHasOpenComment(f, at) ==
    LET HasOpen(row, rsize, len) ==
            IF rsize = 0
            THEN IF row.idx > 0 THEN editorRowHasOpenComment(f, row.idx - 1) ELSE FALSE
            ELSE IF row.hl[rsize] # HL_MLCOMMENT THEN FALSE
            ELSE IF len = 0 THEN TRUE
            ELSE IF rsize >= len
                 THEN ~MatchAt(row.render, rsize - len, f.syntax.mce)
                 \* render + rsize - len points before the buffer: the bytes in
                 \* front of it decide, unless the bytes of the row already differ.
                 ELSE IF \A k \in 1..rsize : row.render[k] = f.syntax.mce[len - rsize + k]
                      THEN ~f.oob
                      ELSE TRUE
    IN HasOpen(f.row[at + 1], Len(f.row[at + 1].render), Len(f.syntax.mce))

\* The first keyword (1-based position in the list, 0 for none) that matches at i.
RECURSIVE KeywordAt(_, _, _, _)
KeywordAt(keywords, render, i, j) ==
    IF j > Len(keywords) THEN 0
    ELSE LET kw == keywords[j]
             kw2 == kw[Len(kw)] = 124
             klen == IF kw2 THEN Len(kw) - 1 ELSE Len(kw)
         IN IF /\ i + klen <= Len(render)
               /\ \A k \in 1..klen : render[i + k] = kw[k]
               /\ is_separator(CharAt(render, i + klen))
            THEN j
            ELSE KeywordAt(keywords, render, i, j + 1)

\* The while (*p) loop of editorUpdateSyntax.  st: i, prev_sep, in_string (0 or the
\* quote byte), in_comment, hl, ret (the single-line comment's early return) and
\* over (the scan or a write went past the end of the row).
RECURSIVE Tokenize(_, _, _)
Tokenize(syn, render, st) ==
    LET i == st.i
        c == CharAt(render, i)
        hl == st.hl
    IN IF i > Len(render) THEN [st EXCEPT !.over = TRUE]
       ELSE IF c = NUL THEN st
       ELSE IF st.in_comment
       THEN LET h1 == SetHl(hl, i, HL_MLCOMMENT)
            IN IF MatchAt(render, i, syn.mce) /\ i + Len(syn.mce) <= StrLen(render)
               THEN Tokenize(syn, render,
                        [st EXCEPT !.hl = SetHlRange(h1, i, Len(syn.mce), HL_MLCOMMENT),
                                   !.i = i + Len(syn.mce),
                                   !.in_comment = FALSE, !.prev_sep = TRUE])
               ELSE Tokenize(syn, render,
                        [st EXCEPT !.hl = h1, !.i = i + 1, !.prev_sep = FALSE])
       ELSE IF Len(syn.mcs) > 0 /\ MatchAt(render, i, syn.mcs)
                /\ i + Len(syn.mcs) <= StrLen(render)
       THEN Tokenize(syn, render,
                [st EXCEPT !.hl = SetHlRange(hl, i, Len(syn.mcs), HL_MLCOMMENT),
                           !.i = i + Len(syn.mcs),
                           !.in_comment = TRUE, !.prev_sep = FALSE])
       ELSE IF st.prev_sep /\ Len(syn.scs) > 0 /\ MatchAt(render, i, syn.scs)
                /\ i + Len(syn.scs) <= StrLen(render)
       THEN [st EXCEPT !.hl = SetHlRange(hl, i, Len(render) - i, HL_COMMENT),
                       !.ret = TRUE]
       ELSE IF st.in_string # 0
       THEN LET h1 == IF syn.strings THEN SetHl(hl, i, HL_STRING) ELSE hl
            IN IF c = 92
               THEN Tokenize(syn, render,
                        [st EXCEPT !.hl = IF syn.strings
                                          THEN SetHl(h1, i + 1, HL_STRING) ELSE h1,
                                   !.over = st.over \/ (syn.strings /\ i + 1 >= Len(render)),
                                   !.i = i + 2, !.prev_sep = FALSE])
               ELSE Tokenize(syn, render,
                        [st EXCEPT !.hl = h1, !.i = i + 1,
                                   !.in_string = IF c = st.in_string THEN 0
                                                 ELSE st.in_string])
       ELSE IF c = 34 \/ c = 39
       THEN Tokenize(syn, render,
                [st EXCEPT !.hl = IF syn.strings THEN SetHl(hl, i, HL_STRING) ELSE hl,
                           !.in_string = c, !.i = i + 1, !.prev_sep = FALSE])
       ELSE IF \/ isdigit(c) /\ (st.prev_sep \/ CharAt(hl, i - 1) = HL_NUMBER)
               \/ c = 46 /\ i > 0 /\ CharAt(hl, i - 1) = HL_NUMBER
       THEN Tokenize(syn, render,
                [st EXCEPT !.hl = IF syn.numbers THEN SetHl(hl, i, HL_NUMBER) ELSE hl,
                           !.i = i + 1, !.prev_sep = FALSE])
       ELSE LET h1 == IF is_separator(c) THEN SetHl(hl, i, HL_KEYWORD1) ELSE hl
                j == IF st.prev_sep THEN KeywordAt(syn.keywords, render, i, 1) ELSE 0
            IN IF j > 0
               THEN LET kw == syn.keywords[j]
                        kw2 == kw[Len(kw)] = 124
                        klen == IF kw2 THEN Len(kw) - 1 ELSE Len(kw)
                    IN Tokenize(syn, render,
                           [st EXCEPT !.hl = SetHlRange(h1, i, klen,
                                                 IF kw2 THEN HL_KEYWORD2 ELSE HL_KEYWORD1),
                                      !.i = i + klen, !.prev_sep = FALSE])
               ELSE Tokenize(syn, render,
                        [st EXCEPT !.hl = h1, !.i = i + 1, !.prev_sep = is_separator(c)])

\* while (*p && isspace(*p)) { p++; i++; }
RECURSIVE SkipSpace(_, _)
SkipSpace(render, i) ==
    IF i < Len(render) /\ render[i + 1] # NUL /\ isspace(render[i + 1])
    THEN SkipSpace(render, i + 1) ELSE i

\* The row-entry comment state: the previous row (by this row's idx) is open.
EntryInComment(f, row) == row.idx > 0 /\ editorRowHasOpenComment(f, row.idx - 1)

RECURSIVE editorUpdateSyntax(_, _)
editorUpdateSyntax(f, at) ==
    LET row == f.row[at + 1]
        hl0 == Repeat(HL_NORMAL, Len(row.render))
        st0 == [i |-> SkipSpace(row.render, 0), prev_sep |-> TRUE,
                in_string |-> 0, in_comment |-> EntryInComment(f, row),
                hl |-> hl0, ret |-> FALSE, over |-> FALSE]
        \* row->hl_oc = oc, on the row the pointer still names
        SetOpen(f2, oc) == SetRow(f2, at, [f2.row[at + 1] EXCEPT !.hl_oc = oc])
        \* if (row->hl_oc != oc && row->idx + 1 < numrows) editorUpdateSyntax(next row)
        Propagate(f1, oc) ==
            SetOpen(IF row.hl_oc # oc /\ row.idx + 1 < f1.numrows
                    THEN editorUpdateSyntax(f1, row.idx + 1)
                    ELSE f1, oc)
        Close(f1, ret) ==
            IF ret THEN f1 ELSE Propagate(f1, editorRowHasOpenComment(f1, at))
        Scanned(t) ==
            Close([SetRow(f, at, [row EXCEPT !.hl = t.hl])
                      EXCEPT !.fault = f.fault \/ t.over], t.ret)
    IN IF ~f.syntax.on THEN SetRow(f, at, [row EXCEPT !.hl = hl0])
       ELSE Scanned(Tokenize(f.syntax, row.render, st0))

\* editorUpdateRow on the row at position at, rendering `size` bytes of `buf`, the
\* memory at row->chars (the row's bytes followed by its NUL).
UpdateRowSized(f, at, buf) ==
    editorUpdateSyntax(
        SetRow([f EXCEPT !.fault = @ \/ NoTabStops(buf, f.tab_size)], at,
               [f.row[at + 1] EXCEPT !.render = Render(buf, f.tab_size)]), at)

editorUpdateRow(f, at) == UpdateRowSized(f, at, f.row[at + 1].chars)


(* --------------------------- the row array ---------------------------- *)
InsertAt(seq, at, x) == SubSeq(seq, 1, at) \o <<x>> \o SubSeq(seq, at + 1, Len(seq))

RemoveAt(seq, at) == SubSeq(seq, 1, at) \o SubSeq(seq, at + 2, Len(seq))

\* The rows after editorInsertRow's memmove: for (j = at + 1; j <= numrows; j++) idx++.
ShiftedRows(rows, at, s) ==
    LET moved == [k \in 1..Len(rows) |->
                     IF k - 1 >= at THEN [rows[k] EXCEPT !.idx = @ + 1] ELSE rows[k]]
    IN InsertAt(moved, at, NewRow(at, s))

\* A row inserted without counting the change.
InsertRowUncounted(f, at, s) ==
    IF at > f.numrows THEN f
    ELSE [editorUpdateRow([f EXCEPT !.row = ShiftedRows(f.row, at, s)], at)
             EXCEPT !.numrows = @ + 1]

editorInsertRow(f, at, s) ==
    IF at > f.numrows THEN f
    \* the new row is rendered and highlighted before numrows++
    ELSE [editorUpdateRow([f EXCEPT !.row = ShiftedRows(f.row, at, s)], at)
             EXCEPT !.numrows = @ + 1, !.dirty = @ + 1]

\* The rows closed up over row at, the later rows keeping the idx they had.
ClosedRowsStale(rows, at) == RemoveAt(rows, at)

\* The rows after editorDelRow's memmove: for (j = at; j < numrows - 1; j++) idx--.
ClosedRows(rows, at) ==
    LET kept == RemoveAt(rows, at)
    IN [k \in 1..Len(kept) |->
           IF k - 1 >= at THEN [kept[k] EXCEPT !.idx = @ - 1] ELSE kept[k]]

editorDelRow(f, at) ==
    IF at >= f.numrows THEN f
    ELSE [f EXCEPT !.row = ClosedRows(f.row, at), !.numrows = @ - 1, !.dirty = @ + 1]

\* The rows' bytes joined, a "\n" after every row.
RECURSIVE RowsToStringFrom(_, _)
RowsToStringFrom(rows, j) ==
    IF j > Len(rows) THEN <<>>
    ELSE rows[j].chars \o <<NL>> \o RowsToStringFrom(rows, j + 1)

editorRowsToString(f) == RowsToStringFrom(SubSeq(f.row, 1, f.numrows), 1)

editorRowInsertChar(f, r, at, c) ==
    LET row == f.row[r + 1]
        size == Len(row.chars)
        chars == IF at > size
                 THEN row.chars \o Repeat(32, at - size) \o <<c>>
                 ELSE InsertAt(row.chars, at, c)
    IN [editorUpdateRow(SetRow(f, r, [row EXCEPT !.chars = chars]), r)
           EXCEPT !.dirty = @ + 1]

editorRowAppendString(f, r, s) ==
    [editorUpdateRow(SetRow(f, r, [f.row[r + 1] EXCEPT !.chars = @ \o s]), r)
        EXCEPT !.dirty = @ + 1]

\* editorUpdateRow runs before row->size--: it renders the old size, the last byte
\* of which is by then the NUL that memmove brought down.
editorRowDelChar(f, r, at) ==
    LET row == f.row[r + 1]
        chars == RemoveAt(row.chars, at)
    IN IF Len(row.chars) <= at \/ at < 0 THEN f
       ELSE [UpdateRowSized(SetRow(f, r, [row EXCEPT !.chars = chars]), r,
                            Append(chars, NUL))
                EXCEPT !.dirty = @ + 1]

(* ------------------------------ editing ------------------------------- *)
FileRow(f) == f.rowoff + f.cy
FileCol(f) == f.coloff + f.cx

\* row = (filerow >= numrows) ? NULL : &row[filerow]
HasRow(f, filerow) == filerow < f.numrows

\* A row of the array read at an index outside it.
Fault(f) == [f EXCEPT !.fault = TRUE]

RowSize(f, r) == Len(f.row[r + 1].chars)

\* while (numrows <= filerow) editorInsertRow(numrows, "", 0)
RECURSIVE AddRowsUpTo(_, _)
AddRowsUpTo(f, filerow) ==
    IF f.numrows <= filerow THEN AddRowsUpTo(editorInsertRow(f, f.numrows, <<>>), filerow)
    ELSE f

\* A cursor that moves down a row and keeps its column.
NewlineKeepsColumn(f) ==
    IF f.cy = f.screenrows - 1 THEN [f EXCEPT !.rowoff = @ + 1] ELSE [f EXCEPT !.cy = @ + 1]

\* fixcursor: the cursor goes down a row, or the viewport does, and to column 0.
NewlineFixCursor(f) ==
    LET f1 == IF f.cy = f.screenrows - 1 THEN [f EXCEPT !.rowoff = @ + 1]
              ELSE [f EXCEPT !.cy = @ + 1]
    IN [f1 EXCEPT !.cx = 0, !.coloff = 0]

editorInsertNewline(f) ==
    LET filerow == FileRow(f)
        size == RowSize(f, filerow)
        filecol == IF FileCol(f) >= size THEN size ELSE FileCol(f)
        chars == f.row[filerow + 1].chars
        \* row->chars[filecol] = '\0'; row->size = filecol, on the row split
        CutRow(f1) == SetRow(f1, filerow,
                             [f1.row[filerow + 1] EXCEPT !.chars = SubSeq(chars, 1, filecol)])
    IN IF filerow < 0 THEN Fault(f)
       ELSE IF ~HasRow(f, filerow)
       THEN IF filerow = f.numrows
            THEN NewlineFixCursor(editorInsertRow(f, filerow, <<>>))
            ELSE f
       ELSE IF filecol = 0
       THEN NewlineFixCursor(editorInsertRow(f, filerow, <<>>))
       ELSE NewlineFixCursor(editorUpdateRow(
                CutRow(editorInsertRow(f, filerow + 1, SubSeq(chars, filecol + 1, size))),
                filerow))

editorInsertCharStays(f, c) ==
    IF c = NL THEN editorInsertNewline(f)
    ELSE IF FileRow(f) < 0 THEN Fault(f)
    ELSE [editorRowInsertChar(IF ~HasRow(f, FileRow(f)) THEN AddRowsUpTo(f, FileRow(f))
                              ELSE f, FileRow(f), FileCol(f), c)
             EXCEPT !.dirty = @ + 1]

editorInsertChar(f, c) ==
    LET filerow == FileRow(f)
        filecol == FileCol(f)
        \* the cursor moves right, or the viewport does; then dirty++
        Advance(f2) ==
            [IF f2.cx = f.screencols - 1 THEN [f2 EXCEPT !.coloff = @ + 1]
             ELSE [f2 EXCEPT !.cx = @ + 1]
                EXCEPT !.dirty = @ + 1]
    IN IF c = NL THEN editorInsertNewline(f)
       ELSE IF filerow < 0 THEN Fault(f)
       ELSE Advance(editorRowInsertChar(
                IF ~HasRow(f, filerow) THEN AddRowsUpTo(f, filerow) ELSE f,
                filerow, filecol, c))

\* The cursor after delete_lua joined the row onto the previous one, filecol bytes long.
JoinCursor(f, filecol) ==
    LET f1 == IF f.cy = 0 THEN [f EXCEPT !.rowoff = @ - 1] ELSE [f EXCEPT !.cy = @ - 1]
        f2 == [f1 EXCEPT !.cx = filecol]
    IN IF f2.cx >= f.screencols
       THEN LET shift == (f.screencols - f2.cx) + 1
            IN [f2 EXCEPT !.cx = @ - shift, !.coloff = @ + shift]
       ELSE f2

delete_lua(f) ==
    LET filerow == FileRow(f)
        filecol == FileCol(f)
        \* the cursor after a byte is removed from the row
        Back(f1) == IF f1.cx = 0 /\ f1.coloff # 0 THEN [f1 EXCEPT !.coloff = @ - 1]
                    ELSE [f1 EXCEPT !.cx = @ - 1]
        \* the BUGFIX: negative offsets are reset to 0
        NoNegative(f3) == [f3 EXCEPT !.coloff = IF @ < 0 THEN 0 ELSE @,
                                     !.rowoff = IF @ < 0 THEN 0 ELSE @]
    IN IF filerow < 0 THEN Fault(f)
       ELSE IF ~HasRow(f, filerow) \/ (filecol = 0 /\ filerow = 0) THEN f
       ELSE IF filecol = 0
       THEN [NoNegative(JoinCursor(
                 editorDelRow(editorRowAppendString(f, filerow - 1,
                                                    f.row[filerow + 1].chars), filerow),
                 RowSize(f, filerow - 1)))
                EXCEPT !.dirty = @ + 1]
       \* if (row) editorUpdateRow(row): only the branch that kept the row
       ELSE [editorUpdateRow(NoNegative(Back(editorRowDelChar(f, filerow, filecol - 1))),
                             filerow)
                EXCEPT !.dirty = @ + 1]


(* --------------------------- cursor motion ---------------------------- *)
\* The switch of editorMoveCursor, before the final clamp.
MoveStep(f, key) ==
    LET filerow == FileRow(f)
        filecol == FileCol(f)
    IN CASE key = ARROW_LEFT ->
              IF f.cx = 0
              THEN IF f.coloff # 0 THEN [f EXCEPT !.coloff = @ - 1]
                   ELSE IF filerow > 0
                        THEN IF filerow - 1 >= f.numrows THEN Fault(f)
                             ELSE LET size == RowSize(f, filerow - 1)
                                  IN IF size > f.screencols - 1
                                     THEN [f EXCEPT !.cy = @ - 1,
                                                    !.coloff = size - f.screencols + 1,
                                                    !.cx = f.screencols - 1]
                                     ELSE [f EXCEPT !.cy = @ - 1, !.cx = size]
                        ELSE f
              ELSE [f EXCEPT !.cx = @ - 1]
         [] key = ARROW_RIGHT ->
              IF filerow < 0 THEN Fault(f)
              ELSE IF HasRow(f, filerow) /\ filecol < RowSize(f, filerow)
              THEN IF f.cx = f.screencols - 1 THEN [f EXCEPT !.coloff = @ + 1]
                   ELSE [f EXCEPT !.cx = @ + 1]
              ELSE IF HasRow(f, filerow) /\ filecol = RowSize(f, filerow)
              THEN IF f.cy = f.screenrows - 1
                   THEN [f EXCEPT !.cx = 0, !.coloff = 0, !.rowoff = @ + 1]
                   ELSE IF filerow < f.numrows - 1
                        THEN [f EXCEPT !.cx = 0, !.coloff = 0, !.cy = @ + 1]
                        ELSE f
              ELSE f
         [] key = ARROW_UP ->
              IF f.cy = 0
              THEN IF f.rowoff # 0 THEN [f EXCEPT !.rowoff = @ - 1] ELSE f
              ELSE [f EXCEPT !.cy = @ - 1]
         [] key = ARROW_DOWN ->
              IF filerow < f.numrows - 1
              THEN IF f.cy = f.screenrows - 1 THEN [f EXCEPT !.rowoff = @ + 1]
                   ELSE [f EXCEPT !.cy = @ + 1]
              ELSE f
         [] OTHER -> f

\* Fix cx if the current line has not enough chars.
ClampCursor(f) ==
    LET filerow == FileRow(f)
        filecol == FileCol(f)
    IN IF filerow < 0 THEN Fault(f)
       ELSE LET rowlen == IF HasRow(f, filerow) THEN RowSize(f, filerow) ELSE 0
            IN IF filecol > rowlen
               THEN LET cx == f.cx - (filecol - rowlen)
                    IN IF cx < 0 THEN [f EXCEPT !.coloff = @ + cx, !.cx = 0]
                       ELSE [f EXCEPT !.cx = cx]
               ELSE f

editorMoveCursor(f, key) ==
    LET Clamp(f1) == IF f1.fault THEN f1 ELSE ClampCursor(f1)
    IN Clamp(MoveStep(f, key))

\* while (n > 0) editorMoveCursor(key)
RECURSIVE MoveTimes(_, _, _)
MoveTimes(f, key, n) ==
    IF n <= 0 \/ f.fault THEN f ELSE MoveTimes(editorMoveCursor(f, key), key, n - 1)

warp(f, x0, y0) ==
    LET y == IF y0 < 0 THEN 0 ELSE y0
        x == IF x0 < 0 THEN 0 ELSE x0
        home == [f EXCEPT !.cx = 0, !.coloff = 0, !.cy = 0, !.rowoff = 0]
    IN MoveTimes(MoveTimes(home, ARROW_DOWN, y), ARROW_RIGHT, x)

(* ----------------------------- selection ------------------------------ *)
\* The byte at() reports: render[cx] of the cursor's row, "\n" at or past its end.
at(f) ==
    LET filerow == FileRow(f)
    IN IF filerow < 0 \/ ~HasRow(f, filerow) THEN NL
       ELSE LET render == f.row[filerow + 1].render
            IN IF f.cx >= 0 /\ f.cx < Len(render) THEN render[f.cx + 1] ELSE NL

AtMark(f) == FileCol(f) = f.markx /\ FileRow(f) = f.marky

\* The cursor is after the mark: get_selection walks left and reverses.
CursorAfterMark(f) ==
    \/ FileRow(f) > f.marky
    \/ FileCol(f) > f.markx /\ FileRow(f) = f.marky

\* A string left as it is.
Unreversed(s) == s

\* strrev
Reverse(s) == [k \in 1..Len(s) |-> s[Len(s) + 1 - k]]

\* A C string: the bytes before the first NUL.
CStr(s) == SubSeq(s, 1, StrLen(s))

\* The walk of get_selection without the byte at the mark.
RECURSIVE SelectionWalkOpen(_, _, _)
SelectionWalkOpen(f, key, acc) ==
    LET Step(got, f1) ==
            IF f1.fault THEN [bytes |-> got, hung |-> TRUE]
            ELSE IF AtMark(f1) THEN [bytes |-> got, hung |-> FALSE]
            ELSE IF f1 = f THEN [bytes |-> got, hung |-> TRUE]
            ELSE SelectionWalkOpen(f1, key, got)
    IN Step(Append(acc, at(f)), editorMoveCursor(f, key))

\* The while (1) loop of get_selection: the bytes gathered, and hung when the walk
\* stops moving before it reaches the mark (the loop then never ends).
RECURSIVE SelectionWalk(_, _, _)
SelectionWalk(f, key, acc) ==
    LET Step(got, f1) ==
            IF f1.fault THEN [bytes |-> got, hung |-> TRUE]
            ELSE IF AtMark(f1) THEN [bytes |-> Append(got, at(f1)), hung |-> FALSE]
            ELSE IF f1 = f THEN [bytes |-> got, hung |-> TRUE]
            ELSE SelectionWalk(f1, key, got)
    IN Step(Append(acc, at(f)), editorMoveCursor(f, key))

\* get_selection: [text, hung]; the cursor and the viewport are restored on return.
get_selection(f) ==
    LET Backward(w) == [text |-> Reverse(CStr(w.bytes)), hung |-> w.hung]
        Forward(w) == [text |-> CStr(w.bytes), hung |-> w.hung]
    IN IF CursorAfterMark(f)
       THEN Backward(SelectionWalk(f, ARROW_LEFT, <<>>))
       ELSE Forward(SelectionWalk(f, ARROW_RIGHT, <<>>))

MarkUnset(f) == f.markx = -1 /\ f.marky = -1

\* selection_lua pushes nil when there is no selection.
HasSelection(f) == ~MarkUnset(f) /\ ~AtMark(f)

\* for (i = 0; i < max; i++) { editorMoveCursor(ARROW_RIGHT); delete_lua(L); }
RECURSIVE CutRight(_, _)
CutRight(f, n) ==
    LET Cut(f1) == IF f1.fault THEN f1 ELSE CutRight(delete_lua(f1), n - 1)
    IN IF n <= 0 \/ f.fault THEN f ELSE Cut(editorMoveCursor(f, ARROW_RIGHT))

\* for (i = 0; i < max; i++) delete_lua(L);
RECURSIVE DeleteTimes(_, _)
DeleteTimes(f, n) ==
    IF n <= 0 \/ f.fault THEN f ELSE DeleteTimes(delete_lua(f), n - 1)

\* cut_selection_lua, for a selection whose walk ends.
cut_selection_lua(f) ==
    LET \* left == 1: one step right, then max deletes
        CutLeft(f0, max) == IF f0.fault THEN f0 ELSE DeleteTimes(f0, max)
        Cut(max) == IF ~CursorAfterMark(f) THEN CutRight(f, max)
                    ELSE CutLeft(editorMoveCursor(f, ARROW_RIGHT), max)
        Unmark(f1) == [f1 EXCEPT !.markx = -1, !.marky = -1]
    IN IF ~HasSelection(f) THEN f
       ELSE Unmark(Cut(Len(get_selection(f).text)))

\* mark_lua(x, y): the mark is stored when each coordinate is >= 0 or -1.
mark_lua(f, x, y) ==
    IF (x >= 0 \/ x = -1) /\ (y >= 0 \/ y = -1) THEN [f EXCEPT !.markx = x, !.marky = y]
    ELSE f


(* ------------------------------ the file ------------------------------ *)
\* The file at the buffer's path: absent, or its bytes.
NoFile == [exists |-> FALSE, data |-> <<>>]

OnDisk(data) == [exists |-> TRUE, data |-> data]

\* getline: the next line of data from byte k on, its "\n" included.
RECURSIVE LineEnd(_, _)
LineEnd(data, k) ==
    IF k > Len(data) THEN Len(data)
    ELSE IF data[k] = NL THEN k ELSE LineEnd(data, k + 1)

\* Every trailing "\n" and "\r" taken off the line.
RECURSIVE StripAll(_)
StripAll(line) ==
    IF Len(line) > 0 /\ (line[Len(line)] = NL \/ line[Len(line)] = CR)
    THEN StripAll(SubSeq(line, 1, Len(line) - 1))
    ELSE line

\* if (linelen && (line[linelen-1] == '\n' || line[linelen-1] == '\r')) line[--linelen] = 0
StripLine(line) ==
    IF Len(line) > 0 /\ (line[Len(line)] = NL \/ line[Len(line)] = CR)
    THEN SubSeq(line, 1, Len(line) - 1)
    ELSE line

\* The while (getline) loop of editorOpen: a row appended for every line read.
RECURSIVE LoadLines(_, _, _)
LoadLines(f, data, k) ==
    IF k > Len(data) THEN f
    ELSE LET e == LineEnd(data, k)
         IN LoadLines(editorInsertRow(f, f.numrows, StripLine(SubSeq(data, k, e))),
                      data, e + 1)

\* editorOpen(filename) for a filename that is not NULL and a file that is absent
\* (ENOENT) or readable.
editorOpen(f, name, disk) ==
    LET f0 == [f EXCEPT !.row = <<>>, !.numrows = 0, !.dirty = 0,
                        !.cx = 0, !.cy = 0, !.rowoff = 0, !.coloff = 0,
                        !.markx = -1, !.marky = -1, !.filename = name]
    IN IF ~disk.exists THEN f0
       ELSE [LoadLines(f0, disk.data, 1) EXCEPT !.dirty = 0]

\* ftruncate(fd, len) on a file of the given bytes: cut, or filled with NUL.
Truncated(data, len) ==
    [k \in 1..len |-> IF k <= Len(data) THEN data[k] ELSE NUL]

\* The file after save_lua, by how far the system calls got: "ok", or the call
\* that failed: "open", "ftruncate", or "write" after n bytes.
DiskAfterSave(f, disk, io, n) ==
    LET buf == editorRowsToString(f)
        len == Len(buf)
        made == IF disk.exists THEN disk.data ELSE <<>>
        cut == Truncated(made, len)
    IN CASE io = "ok" -> OnDisk(buf)
         [] io = "open" -> disk
         [] io = "ftruncate" -> OnDisk(made)
         [] io = "write" ->
              OnDisk([k \in 1..len |-> IF k <= n THEN buf[k] ELSE cut[k]])

\* A save that marks the buffer clean whether or not the file was written.
save_lua_marks_clean(f, path, io) ==
    IF path # "" THEN [f EXCEPT !.filename = path, !.dirty = 0] ELSE [f EXCEPT !.dirty = 0]

\* save_lua: filename set from the argument when given ("" is no argument, NULL).
SaveName(f, path) == IF path # "" THEN path ELSE f.filename

save_lua(f, path, io) ==
    LET f1 == [f EXCEPT !.filename = SaveName(f, path)]
    IN IF f1.filename = "" THEN f1
       ELSE IF io = "ok" THEN [f1 EXCEPT !.dirty = 0]
       ELSE f1


(* ------------------------------- search ------------------------------- *)
\* The cursor search_lua leaves on a match at column x of row current.
SearchCursor(f, x, current) ==
    LET f1 == [f EXCEPT !.cx = x, !.coloff = 0, !.cy = 0, !.rowoff = current]
    IN IF f1.cx > f1.screencols
       THEN LET diff == f1.cx - f1.screencols
            IN [f1 EXCEPT !.cx = @ - diff, !.coloff = @ + diff]
       ELSE f1

\* The two for loops of search_lua: i rows left to try, column x of row current next.
RECURSIVE SearchScan(_, _, _, _, _)
SearchScan(f, term, i, current, x) ==
    IF i >= f.numrows THEN [found |-> FALSE, f |-> f]
    ELSE IF current < 0 \/ current >= f.numrows THEN [found |-> FALSE, f |-> Fault(f)]
    ELSE LET render == f.row[current + 1].render
         IN IF x < Len(render)
            THEN IF MatchAt(render, x, term) /\ x + Len(term) <= StrLenFrom(render, x)
                 THEN [found |-> TRUE, f |-> SearchCursor(f, x, current)]
                 ELSE SearchScan(f, term, i, current, x + 1)
            ELSE SearchScan([f EXCEPT !.cx = 0, !.coloff = 0], term, i + 1,
                            IF current + 1 = f.numrows THEN 0 ELSE current + 1, 0)

\* search_lua(term) for a term that is not NULL: [found, f, len], and without a match
\* the buffer as the loops left it.
search_lua(f, term) ==
    LET Result(r) ==
            IF r.f.fault THEN [found |-> FALSE, f |-> r.f, len |-> 0]
            ELSE IF r.found THEN [found |-> TRUE, f |-> r.f, len |-> Len(term)]
            ELSE [found |-> FALSE, len |-> 0, left |-> r.f,
                  f |-> [r.f EXCEPT !.cx = f.cx, !.cy = f.cy,
                                    !.coloff = f.coloff, !.rowoff = f.rowoff]]
        From(f1) ==
            IF f1.fault THEN [found |-> FALSE, f |-> f1, len |-> 0]
            ELSE Result(SearchScan(f1, term, 0, f1.cy + f1.rowoff, f1.cx + f1.coloff))
    IN From(editorMoveCursor(f, ARROW_RIGHT))

\* insert_lua(str): editorInsertChar for every byte of the string.
RECURSIVE InsertFrom(_, _, _)
InsertFrom(f, str, k) ==
    IF k > Len(str) \/ f.fault THEN f
    ELSE InsertFrom(editorInsertChar(f, str[k]), str, k + 1)

insert_lua(f, str) == InsertFrom(f, CStr(str), 1)

(* ---------------------- the status line and the buffers ---------------- *)
\* The bytes vsnprintf keeps of a status message: sizeof(E.statusmsg) - 1.
StatusMax == 79

\* The name initEditor gives the first buffer.
MessagesName == "*Messages*"

\* `HELP: ^o = open | ^s = save | ^q = quit | ^f = find | ^l = eval`
HelpMessage ==
    <<72, 69, 76, 80, 58, 32, 94, 111, 32, 61, 32, 111, 112, 101, 110, 32, 124, 32, 94,
      115, 32, 61, 32, 115, 97, 118, 101, 32, 124, 32, 94, 113, 32, 61, 32, 113, 117,
      105, 116, 32, 124, 32, 94, 102, 32, 61, 32, 102, 105, 110, 100, 32, 124, 32, 94,
      108, 32, 61, 32, 101, 118, 97, 108>>

\* `No match found`
NoMatchFound ==
    <<78, 111, 32, 109, 97, 116, 99, 104, 32, 102, 111, 117, 110, 100>>

\* `No filename is set!`
NoFilenameIsSet ==
    <<78, 111, 32, 102, 105, 108, 101, 110, 97, 109, 101, 32, 105, 115, 32, 115, 101,
      116, 33>>

\* ` bytes written to `
BytesWrittenTo ==
    <<32, 98, 121, 116, 101, 115, 32, 119, 114, 105, 116, 116, 101, 110, 32, 116, 111,
      32>>

\* `Can't save! I/O error: `
CantSave ==
    <<67, 97, 110, 39, 116, 32, 115, 97, 118, 101, 33, 32, 73, 47, 79, 32, 101, 114,
      114, 111, 114, 58, 32>>

\* `Input/output error`
InputOutputError ==
    <<73, 110, 112, 117, 116, 47, 111, 117, 116, 112, 117, 116, 32, 101, 114, 114, 111,
      114>>

\* strerror(errno), the system call having failed with EIO.
strerror == InputOutputError

\* The bytes of a file name.
NameBytes(name) ==
    CASE name = "t" -> <<116>>
      [] name = MessagesName -> <<42, 77, 101, 115, 115, 97, 103, 101, 115, 42>>
      [] OTHER -> <<>>

\* %d of a number that is not negative.
RECURSIVE Decimal(_)
Decimal(n) == IF n < 10 THEN <<48 + n>> ELSE Decimal(n \div 10) \o <<48 + (n % 10)>>

\* The editor: the current buffer, the other buffers in the order of E.file, and
\* E.max_files, E.current_file and E.statusmsg.
Editor(f, o, e) == [file |-> f, others |-> o, E |-> e]

\* E.file
Files(w) == InsertAt(w.others, w.E.current_file, w.file)

\* E.current_file = i
SetCurrent(w, i) ==
    [file |-> Files(w)[i + 1], others |-> RemoveAt(Files(w), i),
     E |-> [w.E EXCEPT !.current_file = i]]

\* The first buffer of the given name, from index i on; -1 when there is none.
RECURSIVE FindBuffer(_, _, _)
FindBuffer(files, name, i) ==
    IF i >= Len(files) THEN -1
    ELSE IF files[i + 1].filename # "" /\ files[i + 1].filename = name THEN i
    ELSE FindBuffer(files, name, i + 1)

\* editorInsertChar for the bytes lo..hi of a message, in order: the first half of them,
\* then the second.
RECURSIVE InsertBytes(_, _, _, _)
InsertBytes(f, str, lo, hi) ==
    IF lo > hi \/ f.fault THEN f
    ELSE IF lo = hi THEN editorInsertChar(f, str[lo])
    ELSE InsertBytes(InsertBytes(f, str, lo, (lo + hi) \div 2), str,
                     (lo + hi) \div 2 + 1, hi)

\* editorSetStatusMessage(log, msg): the message is stored; when logged it is also
\* typed, with a newline, into the first buffer named *Messages*.
editorSetStatusMessage(w, log, msg) ==
    LET Typing(w1) ==
            [w1 EXCEPT !.file = InsertBytes(@, w1.E.statusmsg \o <<NL>>, 1,
                                            Len(w1.E.statusmsg) + 1)]
        Logged(w1, i) ==
            IF log = 1 /\ i >= 0 THEN SetCurrent(Typing(SetCurrent(w1, i)), w.E.current_file)
            ELSE w1
    IN Logged([w EXCEPT !.E.statusmsg = SubSeq(msg, 1, IF Len(msg) < StatusMax
                                                       THEN Len(msg) ELSE StatusMax)],
              FindBuffer(Files(w), MessagesName, 0))

\* search(term): search_lua with its status message. Without a match the message is
\* logged first, with the cursor where the loops left it, and the cursor restored after.
search(w, term) ==
    LET Restored(w1) ==
            [w1 EXCEPT !.file = [@ EXCEPT !.cx = w.file.cx, !.cy = w.file.cy,
                                          !.coloff = w.file.coloff,
                                          !.rowoff = w.file.rowoff]]
        Result(r) ==
            IF r.found \/ r.f.fault
            THEN [found |-> r.found, len |-> r.len, w |-> [w EXCEPT !.file = r.f]]
            ELSE [found |-> FALSE, len |-> 0,
                  w |-> Restored(editorSetStatusMessage([w EXCEPT !.file = r.left], 1,
                                                        NoMatchFound))]
    IN Result(search_lua(w.file, term))

\* save(path): save_lua with its status message and callback: [w, called].
save(w, path, io) ==
    LET Written(w1, len) ==
            editorSetStatusMessage(w1, 1, Decimal(len) \o BytesWrittenTo
                                              \o NameBytes(w1.file.filename))
        Saved(w1) ==
            IF w1.file.filename = ""
            THEN [w |-> editorSetStatusMessage(w1, 1, NoFilenameIsSet), called |-> <<>>]
            ELSE IF io = "ok"
            THEN [w |-> Written(w1, Len(editorRowsToString(w.file))),
                  called |-> <<"on_saved">>]
            ELSE [w |-> editorSetStatusMessage(w1, 1, CantSave \o strerror),
                  called |-> <<>>]
    IN Saved([w EXCEPT !.file = save_lua(w.file, path, io)])

(* ---------------------- the terminal and the exit ---------------------- *)
\* The process and its terminal: isatty(STDIN_FILENO); E.rawmode; whether the
\* terminal has its original attributes or the raw ones; the handlers atexit()
\* registered; how many times the clear-screen sequence was printed and how many
\* times the attributes were set back; the exit status, -1 while the process runs.
Process(isatty) ==
    [isatty |-> isatty, rawmode |-> 0, termios |-> "orig", atexit |-> 0,
     cleared |-> 0, resets |-> 0, status |-> -1]

disableRawMode_unguarded(t) ==
    [t EXCEPT !.termios = "orig", !.resets = @ + 1, !.rawmode = 0]

disableRawMode(t) ==
    IF t.rawmode = 1
    THEN [t EXCEPT !.termios = "orig", !.resets = @ + 1, !.rawmode = 0]
    ELSE t

editorAtExit(t) == [disableRawMode(t) EXCEPT !.cleared = @ + 1]

\* enableRawMode(): tcget and tcset say whether tcgetattr and tcsetattr succeed.
enableRawMode(t, tcget, tcset) ==
    IF t.rawmode = 1 THEN [t |-> t, ret |-> 0, errno |-> ""]
    ELSE IF ~t.isatty THEN [t |-> t, ret |-> -1, errno |-> "ENOTTY"]
    ELSE IF ~tcget \/ ~tcset
         THEN [t |-> [t EXCEPT !.atexit = @ + 1], ret |-> -1, errno |-> "ENOTTY"]
         ELSE [t |-> [t EXCEPT !.atexit = @ + 1, !.termios = "raw", !.rawmode = 1],
               ret |-> 0, errno |-> ""]

\* exit(status): the registered handlers run, then the process is gone.
RECURSIVE AtExit(_, _)
AtExit(t, n) == IF n = 0 THEN t ELSE AtExit(editorAtExit(t), n - 1)

exit(t, status) == [AtExit(t, t.atexit) EXCEPT !.status = status]

\* The process in the main loop on a terminal, in raw mode.
InTerminal == enableRawMode(Process(TRUE), TRUE, TRUE).t

(* ------------------------------- state -------------------------------- *)
VARIABLES
    file,     \* E.file[E.current_file]: the current buffer
    others,   \* the other buffers of E.file, in order
    E,        \* E.max_files, E.current_file and E.statusmsg
    sub,      \* the locals of the running find, prompt or buffer chooser
    called,   \* the Lua callbacks the last step invoked
    typed,    \* the bytes typed so far
    disk,     \* the file at the buffer's path
    ret,      \* what the last operation returned to the script
    pc,       \* "run"; "find", "prompt", "choose" in a sub-loop; "exit" after exit();
              \* "hung" in a loop that never ends
    lastOp,   \* the operation that led to this state
    tty       \* the process and its terminal

vars == <<file, others, E, sub, called, typed, disk, ret, pc, lastOp, tty>>

\* The editor of this state and of the next.
W == Editor(file, others, E)

\* The buffer create_buffer_lua makes.
create_buffer_lua ==
    [row |-> <<>>, numrows |-> 0, cx |-> 0, cy |-> 0, rowoff |-> 0, coloff |-> 0,
     markx |-> -1, marky |-> -1, dirty |-> 0, tab_size |-> DefaultTabSize,
     filename |-> "", syntax |-> NoSyntax, fault |-> FALSE, oob |-> FALSE]

\* The editor initEditor leaves on a terminal of the given size: E.screenrows and
\* E.screencols, and the first buffer.
initEditor(rows, cols) == create_buffer_lua @@ [screenrows |-> rows, screencols |-> cols]

Nil == [kind |-> "nil", text |-> <<>>, num |-> 0]
Text(s) == [kind |-> "string", text |-> s, num |-> 0]
Num(n) == [kind |-> "number", text |-> <<>>, num |-> n]

\* The bytes an editing session types.
Typed == {97}

\* The main loop runs, and nothing undefined has happened in any buffer.
Running == pc = "run" /\ ~file.fault /\ \A k \in 1..Len(others) : ~others[k].fault

\* No sub-loop runs.  saved_hl is <<>> for NULL and <<hl>> for a copy of a row's hl;
\* entry is the cursor and the current buffer the sub-loop was entered with.
NoSub == [query |-> <<>>, last_match |-> -1, saved_hl_line |-> -1, saved_hl |-> <<>>,
          saved_cx |-> 0, saved_cy |-> 0, saved_coloff |-> 0, saved_rowoff |-> 0,
          offset |-> 0,
          entry |-> [cx |-> 0, cy |-> 0, coloff |-> 0, rowoff |-> 0, current_file |-> 0]]

\* The next state's editor, and the first state's.
Becomes(w) == file' = w.file /\ others' = w.others /\ E' = w.E
Starts(w) == file = w.file /\ others = w.others /\ E = w.E

\* An editor whose *Messages* buffer was killed: one buffer, the help on the status
\* line, no sub-loop and nothing typed.
Alone ==
    /\ others = <<>>
    /\ E = [max_files |-> 1, current_file |-> 0, statusmsg |-> HelpMessage]
    /\ sub = NoSub
    /\ called = <<>>
    /\ typed = <<>>

\* The longest row and the most rows after inserting byte c at the cursor.
InsertFits(f, c) ==
    /\ f.dirty < MaxDirty
    /\ IF c = NL THEN f.numrows < MaxRows
       ELSE /\ FileRow(f) < MaxRows
            /\ FileCol(f) < MaxLen
            /\ HasRow(f, FileRow(f)) => RowSize(f, FileRow(f)) < MaxLen

\* A join must fit a row too.
DeleteFits(f) ==
    /\ f.dirty < MaxDirty
    /\ (FileRow(f) > 0 /\ FileCol(f) = 0 /\ HasRow(f, FileRow(f))) =>
           RowSize(f, FileRow(f) - 1) + RowSize(f, FileRow(f)) <= MaxLen

(* ------------------------------ actions ------------------------------- *)
\* up_lua, down_lua, left_lua, right_lua
Move(key) ==
    /\ Running
    /\ file' = editorMoveCursor(file, key)
    /\ lastOp' = "move"
    /\ ret' = Nil
    /\ called' = <<>>
    /\ UNCHANGED <<tty, others, E, sub, typed, disk, pc>>

\* insert(str) with a string of one byte.
Insert(c) ==
    /\ Running
    /\ InsertFits(file, c)
    /\ file' = insert_lua(file, <<c>>)
    /\ lastOp' = IF c = NL THEN "insert_newline" ELSE "insert_char"
    /\ ret' = Nil
    /\ called' = <<>>
    /\ UNCHANGED <<tty, others, E, sub, typed, disk, pc>>

\* delete()
Delete ==
    /\ Running
    /\ DeleteFits(file)
    /\ file' = delete_lua(file)
    /\ lastOp' = IF file'.numrows < file.numrows THEN "delete_row" ELSE "delete_char"
    /\ ret' = Nil
    /\ called' = <<>>
    /\ UNCHANGED <<tty, others, E, sub, typed, disk, pc>>

\* search(term)
Search(term) ==
    LET Found(r) ==
            /\ Becomes(r.w)
            /\ ret' = Num(r.len)
            /\ lastOp' = IF r.found THEN "search_match" ELSE "search_none"
    IN /\ Running
       /\ Found(search(W, term))
       /\ called' = <<>>
       /\ UNCHANGED <<tty, sub, typed, disk, pc>>

Init ==
    /\ file = initEditor(ScreenRows, ScreenCols)
    /\ disk = NoFile
    /\ Alone
    /\ ret = Nil
    /\ tty = InTerminal
    /\ pc = "run"
    /\ lastOp = "init"

Next ==
    \/ \E key \in {ARROW_LEFT, ARROW_RIGHT, ARROW_UP, ARROW_DOWN} : Move(key)
    \/ \E c \in Typed \cup {NL} : Insert(c)
    \/ Delete
    \/ \E term \in {<<97>>} : Search(term)

Spec == Init /\ [][Next]_vars


(* --------------------------- a file session --------------------------- *)
\* The bytes the buffer would save.
FileBytes(f) == Len(editorRowsToString(f))

\* insert(str), the buffer kept within MaxFileLen bytes.
InsertSmall(c) ==
    /\ FileBytes(file) < MaxFileLen
    /\ file.dirty < MaxFileDirty
    /\ Insert(c)

\* save(path): with or without a path, the system calls succeeding or failing.
Save(path, io, n) ==
    /\ Running
    /\ Becomes(save(W, path, io).w)
    /\ called' = save(W, path, io).called
    /\ disk' = IF SaveName(file, path) = "" THEN disk ELSE DiskAfterSave(file, disk, io, n)
    /\ lastOp' = IF SaveName(file, path) = "" THEN "save_unnamed"
                 ELSE IF io = "ok" THEN "save_ok" ELSE "save_failed"
    /\ ret' = Nil
    /\ UNCHANGED <<tty, sub, typed, pc>>

\* open(name): lastOp tells an open that follows a successful save from any other.
Open(name) ==
    /\ Running
    /\ file' = editorOpen(file, name, disk)
    /\ lastOp' = IF lastOp = "save_ok" /\ file.filename = name THEN "reopen" ELSE "open"
    /\ ret' = Nil
    /\ called' = <<"on_loaded">>
    /\ UNCHANGED <<tty, others, E, sub, typed, disk, pc>>

\* The files found at the path when the editor starts.
InitialDisks == {NoFile, OnDisk(<<97>>), OnDisk(<<97, CR, NL>>)}

InitFile ==
    /\ file = initEditor(ScreenRows, ScreenCols)
    /\ disk \in InitialDisks
    /\ Alone
    /\ ret = Nil
    /\ tty = InTerminal
    /\ pc = "run"
    /\ lastOp = "init"

NextFile ==
    \/ \E key \in {ARROW_LEFT, ARROW_RIGHT, ARROW_UP, ARROW_DOWN} : Move(key)
    \/ \E c \in {97, NL} : InsertSmall(c)
    \/ Delete
    \/ \E path \in {"", "t"}, io \in {"ok", "open", "ftruncate"} : Save(path, io, 0)
    \/ \E path \in {"", "t"}, n \in 0..MaxShort :
           n < FileBytes(file) /\ FileBytes(file) <= MaxFileLen /\ Save(path, "write", n)
    \/ Open("t")

SpecFile == InitFile /\ [][NextFile]_vars

(* ------------------------ a selection session ------------------------- *)
\* editorRefreshScreen: whether it paints cell j of the screen line that shows row
\* filerow as HL_SELECTION.
Selected(f, filerow, j) ==
    LET mx == f.markx
        my == f.marky
        cx == f.coloff + f.cx
        cy == f.rowoff + f.cy
    IN /\ f.markx # -1 /\ f.marky # -1
       /\ IF cy > my \/ (cx > mx /\ cy = my)
          THEN IF cy = my THEN cy = filerow /\ j >= mx /\ j < cx
               ELSE \/ filerow = my /\ j >= mx
                    \/ filerow = cy /\ j < cx
                    \/ filerow > my /\ filerow < cy
          ELSE IF cy = my THEN cy = filerow /\ j <= mx /\ j >= cx
               ELSE \/ filerow = my /\ j <= mx
                    \/ filerow = cy /\ j > cx
                    \/ filerow > cy /\ filerow < my

\* The cells editorRefreshScreen draws, as <<row, screen column>>: the first
\* screencols cells of render from coloff on, of the rows from rowoff on.
ScreenCells(f) ==
    {cell \in (f.rowoff..(f.rowoff + f.screenrows - 1)) \X (0..(f.screencols - 1)) :
         /\ cell[1] >= 0 /\ cell[1] < f.numrows
         /\ cell[2] < Len(f.row[cell[1] + 1].render) - f.coloff}

\* The cells of render painted as HL_SELECTION, as <<row, column of render>>.
SelectionCells(f) ==
    {<<cell[1], f.coloff + cell[2]>> : cell \in {c \in ScreenCells(f) : Selected(f, c[1], c[2])}}

\* mark(x, y)
Mark(x, y) ==
    /\ Running
    /\ file' = mark_lua(file, x, y)
    /\ lastOp' = "mark"
    /\ ret' = Nil
    /\ called' = <<>>
    /\ UNCHANGED <<tty, others, E, sub, typed, disk, pc>>

\* selection(): nil, or the text; a walk that never reaches the mark never returns.
Selection ==
    /\ Running
    /\ lastOp' = "selection"
    /\ IF ~HasSelection(file) THEN ret' = Nil /\ pc' = pc
       ELSE IF get_selection(file).hung THEN ret' = Nil /\ pc' = "hung"
       ELSE ret' = Text(get_selection(file).text) /\ pc' = pc
    /\ called' = <<>>
    /\ UNCHANGED <<tty, file, others, E, sub, typed, disk>>

\* cut_selection()
CutSelection ==
    /\ Running
    /\ lastOp' = "cut_selection"
    /\ IF HasSelection(file) /\ get_selection(file).hung
       THEN file' = file /\ pc' = "hung"
       ELSE file' = cut_selection_lua(file) /\ pc' = pc
    /\ ret' = Nil
    /\ called' = <<>>
    /\ UNCHANGED <<tty, others, E, sub, typed, disk>>

\* Every text of at most MaxSelLen bytes of "a", "b", TAB and "\n".
SelTexts == UNION {[1..n -> {97, 98, TAB, NL}] : n \in 0..MaxSelLen}

\* The editor started on a file of one of the texts.
InitSel ==
    /\ \E text \in SelTexts :
           /\ disk = OnDisk(text)
           /\ file = editorOpen(initEditor(SelRows, SelCols), "t", disk)
    /\ Alone
    /\ ret = Nil
    /\ tty = InTerminal
    /\ pc = "run"
    /\ lastOp = "init"

NextSel ==
    \/ \E key \in {ARROW_LEFT, ARROW_RIGHT, ARROW_UP, ARROW_DOWN} : Move(key)
    \/ \E x \in -1..MaxSelLen, y \in -1..SelRows : Mark(x, y)
    \/ Selection
    \/ CutSelection

SpecSel == InitSel /\ [][NextSel]_vars

(* ------------------------- a highlighting session --------------------- *)
\* for (i = 0; i < numrows; i++) editorUpdateRow(row + i)
RECURSIVE UpdateRowsFrom(_, _)
UpdateRowsFrom(f, i) ==
    IF i >= f.numrows \/ f.fault THEN f ELSE UpdateRowsFrom(editorUpdateRow(f, i), i + 1)

\* set_syntax_keywords_lua: the syntax is made on first use, with strings and numbers
\* highlighted and no comment delimiters; then every row is rendered again.
set_syntax_keywords_lua(f, keywords) ==
    LET made == IF f.syntax.on THEN f.syntax
                ELSE [NoSyntax EXCEPT !.on = TRUE, !.strings = TRUE, !.numbers = TRUE]
    IN UpdateRowsFrom([f EXCEPT !.syntax = [made EXCEPT !.keywords = keywords]], 0)

\* set_syntax_comments_lua: nothing without a syntax; else the three delimiters are
\* stored and every row is rendered again.
set_syntax_comments_lua(f, single, multi_open, multi_end) ==
    IF ~f.syntax.on THEN f
    ELSE UpdateRowsFrom([f EXCEPT !.syntax = [@ EXCEPT !.scs = single,
                                                       !.mcs = multi_open,
                                                       !.mce = multi_end]], 0)

SetSyntaxKeywords(keywords) ==
    /\ Running
    /\ file' = set_syntax_keywords_lua(file, keywords)
    /\ lastOp' = "set_syntax_keywords"
    /\ ret' = Nil
    /\ called' = <<>>
    /\ UNCHANGED <<tty, others, E, sub, typed, disk, pc>>

SetSyntaxComments(single, multi_open, multi_end) ==
    /\ Running
    /\ file' = set_syntax_comments_lua(file, single, multi_open, multi_end)
    /\ lastOp' = "set_syntax_comments"
    /\ ret' = Nil
    /\ called' = <<>>
    /\ UNCHANGED <<tty, others, E, sub, typed, disk, pc>>

\* "/*" and "*/"
CommentOpen == <<47, 42>>
CommentClose == <<42, 47>>

\* The rows `/* open`, `still in`, `done */ code`.
ThreeRows ==
    <<47, 42, 32, 111, 112, 101, 110, NL, 115, 116, 105, 108, 108, 32, 105, 110, NL,
      100, 111, 110, 101, 32, 42, 47, 32, 99, 111, 100, 101, NL>>

\* The rows `/* open`, three spaces, `still in`.
BlankRowInside ==
    <<47, 42, 32, 111, 112, 101, 110, NL, 32, 32, 32, NL,
      115, 116, 105, 108, 108, 32, 105, 110, NL>>

\* Every text of at most MaxSynLen bytes of "/", "*", " ", "x" and "\n", and the two above.
SynTexts ==
    UNION {[1..n -> {47, 42, 32, 120, NL}] : n \in 0..MaxSynLen}
        \cup {ThreeRows, BlankRowInside}

\* The editor started on a file of one of the texts; the bytes in front of a row's
\* memory match the closing delimiter or do not.
InitSyntax ==
    /\ \E text \in SynTexts, oob \in BOOLEAN :
           /\ disk = OnDisk(text)
           /\ file = editorOpen([initEditor(ScreenRows, ScreenCols) EXCEPT !.oob = oob],
                                "t", disk)
    /\ Alone
    /\ ret = Nil
    /\ tty = InTerminal
    /\ pc = "run"
    /\ lastOp = "init"

NextSyntax ==
    \/ \E keywords \in {<<>>, <<<<120>>>>} : SetSyntaxKeywords(keywords)
    \/ \E single \in {<<>>, <<47, 47>>} : SetSyntaxComments(single, CommentOpen, CommentClose)

SpecSyntax == InitSyntax /\ [][NextSyntax]_vars

(* -------------------------- a rendering session ----------------------- *)
\* tabsize_lua(width): the width is stored and every row rendered again.
tabsize_lua(f, width) == UpdateRowsFrom([f EXCEPT !.tab_size = width], 0)

TabSize(width) ==
    /\ Running
    /\ file' = tabsize_lua(file, width)
    /\ lastOp' = "tabsize"
    /\ ret' = Num(width)
    /\ called' = <<>>
    /\ UNCHANGED <<tty, others, E, sub, typed, disk, pc>>

\* insert(str) into a one-row buffer of fewer than MaxTabLen bytes.
InsertInRow(c) ==
    /\ file.numrows <= 1
    /\ file.numrows = 1 => RowSize(file, 0) < MaxTabLen
    /\ FileRow(file) = 0
    /\ file.dirty < MaxFileDirty
    /\ Running
    /\ file' = insert_lua(file, <<c>>)
    /\ lastOp' = "insert_char"
    /\ ret' = Nil
    /\ called' = <<>>
    /\ UNCHANGED <<tty, others, E, sub, typed, disk, pc>>

\* Every one-row text of at most MaxTabLen bytes of TAB and "a".
TabTexts == UNION {[1..n -> {TAB, 97}] : n \in 0..MaxTabLen}

\* The editor started without a file, one of the texts at the path "t".
InitRender ==
    /\ \E text \in TabTexts : disk = OnDisk(text)
    /\ file = initEditor(ScreenRows, ScreenCols)
    /\ Alone
    /\ ret = Nil
    /\ tty = InTerminal
    /\ pc = "run"
    /\ lastOp = "init"

NextRender ==
    \/ \E width \in {4, DefaultTabSize} : TabSize(width)
    \/ \E c \in {TAB, 97} : InsertInRow(c)
    \/ \E key \in {ARROW_LEFT, ARROW_RIGHT} : Move(key)
    \/ Open("t")

SpecRender == InitRender /\ [][NextRender]_vars

\* The same session with the widths a script may pass to tabsize().
TabWidths == {-1, 0, 1, DefaultTabSize}

NextTab ==
    \/ \E width \in TabWidths : TabSize(width)
    \/ \E c \in {TAB, 97} : InsertInRow(c)
    \/ Open("t")

SpecTab == InitRender /\ [][NextTab]_vars

(* --------------------------- a typing session -------------------------- *)
\* A buffer appended to E.file without counting it.
create_buffer_uncounted(w, name) ==
    [file |-> [initEditor(w.file.screenrows, w.file.screencols) EXCEPT !.filename = name],
     others |-> Files(w),
     E |-> [w.E EXCEPT !.current_file = w.E.max_files]]

\* create_buffer(name): a new buffer at the end of E.file, made the current one
\* ("" is no name, NULL).
create_buffer(w, name) ==
    [file |-> [initEditor(w.file.screenrows, w.file.screencols) EXCEPT !.filename = name],
     others |-> Files(w),
     E |-> [w.E EXCEPT !.max_files = @ + 1, !.current_file = w.E.max_files]]

\* The editor when main enters its loop without a file to open: initEditor's
\* *Messages* buffer, main's own buffer, which is the current one, and the help logged.
main(rows, cols) ==
    editorSetStatusMessage(
        create_buffer(Editor([initEditor(rows, cols) EXCEPT !.filename = MessagesName], <<>>,
                             [max_files |-> 1, current_file |-> 0, statusmsg |-> <<>>]),
                      ""),
        1, HelpMessage)

\* `abc`, newline, `def`
AbcDef == <<97, 98, 99, NL, 100, 101, 102>>

\* The texts a session types: every text of at most MaxTyped bytes of "a", "b" and
\* "\n", and the one above.
TypedTexts == UNION {[1..n -> {97, 98, NL}] : n \in 0..MaxTyped} \cup {AbcDef}

\* editorProcessKeypress with an on_key that inserts the key: the next byte of one of
\* the texts is typed.
Type(c) ==
    /\ Running
    /\ \E text \in TypedTexts :
           /\ Len(text) > Len(typed)
           /\ SubSeq(text, 1, Len(typed) + 1) = Append(typed, c)
    /\ file' = insert_lua(file, <<c>>)
    /\ typed' = Append(typed, c)
    /\ lastOp' = "type"
    /\ ret' = Nil
    /\ called' = <<"on_key">>
    /\ UNCHANGED <<tty, others, E, sub, disk, pc>>

\* at()
At ==
    /\ Running
    /\ ret' = Text(<<at(file)>>)
    /\ lastOp' = "at"
    /\ called' = <<>>
    /\ UNCHANGED <<tty, file, others, E, sub, typed, disk, pc>>

InitType ==
    /\ Starts(main(ScreenRows, ScreenCols))
    /\ sub = NoSub
    /\ called = <<>>
    /\ typed = <<>>
    /\ disk = NoFile
    /\ ret = Nil
    /\ tty = InTerminal
    /\ pc = "run"
    /\ lastOp = "init"

NextType ==
    \/ \E c \in {97, 98, 99, 100, 101, 102, NL} : Type(c)
    \/ At

SpecType == InitType /\ [][NextType]_vars

(* --------------------------- a buffer session -------------------------- *)
\* The cursor and the current buffer when a sub-loop is entered.
Entry(w) ==
    [cx |-> w.file.cx, cy |-> w.file.cy, coloff |-> w.file.coloff,
     rowoff |-> w.file.rowoff, current_file |-> w.E.current_file]

\* The name of the step that reads key c.
KeyRead(c) == IF c = ESC THEN "esc" ELSE IF c = ENTER THEN "enter" ELSE "key"

\* The rows of the buffer that has become the current one are rendered again.
Rerendered(w) == [w EXCEPT !.file = UpdateRowsFrom(@, 0)]

\* The index before i, stopping at the first buffer.
PrevIndexNoWrap(i, n) == IF i > 0 THEN i - 1 ELSE 0

\* The index before i and the index after it, around the ends of the buffer list.
PrevIndex(i, n) == IF i > 0 THEN i - 1 ELSE n - 1
NextIndex(i, n) == IF i < n - 1 THEN i + 1 ELSE 0

\* kill_buffer() with more than one buffer: the current buffer is freed, the later
\* ones move down one place, and the buffer before it, or the last one, is current.
kill_buffer(w) ==
    LET Kept(files, cur) ==
            Rerendered([file |-> files[cur + 1], others |-> RemoveAt(files, cur),
                        E |-> [w.E EXCEPT !.max_files = @ - 1, !.current_file = cur]])
    IN Kept(RemoveAt(Files(w), w.E.current_file),
            PrevIndex(w.E.current_file, w.E.max_files - 1))

\* next_buffer() and prev_buffer()
next_buffer(w) == Rerendered(SetCurrent(w, NextIndex(w.E.current_file, w.E.max_files)))
prev_buffer(w) == Rerendered(SetCurrent(w, PrevIndex(w.E.current_file, w.E.max_files)))

\* select_buffer(offset) and select_buffer(name): the editor and what is pushed.
select_buffer(w, offset) ==
    IF offset >= 0 /\ offset <= w.E.max_files - 1
    THEN [w |-> SetCurrent(w, offset), ret |-> 1]
    ELSE [w |-> w, ret |-> 0]

select_buffer_named(w, name) ==
    LET Found(i) == IF i >= 0 THEN [w |-> SetCurrent(w, i), ret |-> 1]
                    ELSE [w |-> w, ret |-> 0]
    IN Found(FindBuffer(Files(w), name, 0))

\* One key of choose_buffer()'s loop on the entry at offset: the offset, and whether
\* the loop goes on.
choose_key(w, offset, c) ==
    IF c = ENTER THEN [w |-> SetCurrent(w, offset), offset |-> offset, done |-> TRUE]
    ELSE IF c = ESC THEN [w |-> w, offset |-> offset, done |-> TRUE]
    ELSE IF c = ARROW_UP THEN [w |-> w, offset |-> 0, done |-> FALSE]
    ELSE IF c = ARROW_DOWN
    THEN [w |-> w, offset |-> IF offset < w.E.max_files - 1 THEN offset + 1 ELSE offset,
          done |-> FALSE]
    ELSE [w |-> w, offset |-> offset, done |-> FALSE]

\* The names a script gives its buffers, and the lines it logs.
BufferNames == {"", "t", MessagesName}
StatusTexts == {<<111, 107>>}

\* Every buffer of the editor.
Buffers == Files(W)

CreateBuffer(name) ==
    /\ Running
    /\ E.max_files < MaxFiles
    /\ Becomes(create_buffer(W, name))
    /\ lastOp' = "create_buffer"
    /\ ret' = Nil
    /\ called' = <<>>
    /\ UNCHANGED <<tty, sub, typed, disk, pc>>

\* kill_buffer(): with one buffer left it is exit().
KillBuffer ==
    /\ Running
    /\ IF E.max_files > 1 THEN Becomes(kill_buffer(W)) /\ pc' = "run" /\ tty' = tty
       ELSE UNCHANGED <<file, others, E>> /\ pc' = "exit" /\ tty' = exit(tty, 0)
    /\ lastOp' = "kill_buffer"
    /\ ret' = Nil
    /\ called' = <<>>
    /\ UNCHANGED <<tty, sub, typed, disk>>

NextBuffer ==
    /\ Running
    /\ Becomes(next_buffer(W))
    /\ lastOp' = "next_buffer"
    /\ ret' = Nil
    /\ called' = <<>>
    /\ UNCHANGED <<tty, sub, typed, disk, pc>>

PrevBuffer ==
    /\ Running
    /\ Becomes(prev_buffer(W))
    /\ lastOp' = "prev_buffer"
    /\ ret' = Nil
    /\ called' = <<>>
    /\ UNCHANGED <<tty, sub, typed, disk, pc>>

SelectBuffer(offset) ==
    /\ Running
    /\ Becomes(select_buffer(W, offset).w)
    /\ ret' = Num(select_buffer(W, offset).ret)
    /\ lastOp' = "select_buffer"
    /\ called' = <<>>
    /\ UNCHANGED <<tty, sub, typed, disk, pc>>

SelectBufferNamed(name) ==
    /\ Running
    /\ Becomes(select_buffer_named(W, name).w)
    /\ ret' = Num(select_buffer_named(W, name).ret)
    /\ lastOp' = "select_buffer"
    /\ called' = <<>>
    /\ UNCHANGED <<tty, sub, typed, disk, pc>>

\* choose_buffer() starts its loop on the first entry.
ChooseBuffer ==
    /\ Running
    /\ pc' = "choose"
    /\ sub' = [NoSub EXCEPT !.offset = 0, !.entry = Entry(W)]
    /\ lastOp' = "choose_buffer"
    /\ ret' = Nil
    /\ called' = <<>>
    /\ UNCHANGED <<tty, file, others, E, typed, disk>>

\* The loop of choose_buffer() reads a key.
ChooseKey(c) ==
    /\ pc = "choose"
    /\ Becomes(choose_key(W, sub.offset, c).w)
    /\ IF choose_key(W, sub.offset, c).done THEN pc' = "run" /\ sub' = NoSub
       ELSE pc' = "choose" /\ sub' = [sub EXCEPT !.offset = choose_key(W, sub.offset, c).offset]
    /\ lastOp' = KeyRead(c)
    /\ ret' = Nil
    /\ called' = <<>>
    /\ UNCHANGED <<tty, typed, disk>>

\* status(str): the line is shown and logged.
Status(str) ==
    /\ Running
    /\ \A k \in 1..Len(Buffers) : Buffers[k].numrows < MaxLog + 2
    /\ Becomes(editorSetStatusMessage(W, 1, str))
    /\ lastOp' = "status"
    /\ ret' = Nil
    /\ called' = <<>>
    /\ UNCHANGED <<tty, sub, typed, disk, pc>>

InitBuffers ==
    /\ Starts(main(ScreenRows, ScreenCols))
    /\ sub = NoSub
    /\ called = <<>>
    /\ typed = <<>>
    /\ disk = NoFile
    /\ ret = Nil
    /\ tty = InTerminal
    /\ pc = "run"
    /\ lastOp = "init"

NextBuffers ==
    \/ \E name \in BufferNames : CreateBuffer(name)
    \/ KillBuffer
    \/ NextBuffer
    \/ PrevBuffer
    \/ \E offset \in -1..MaxFiles : SelectBuffer(offset)
    \/ \E name \in BufferNames : SelectBufferNamed(name)
    \/ ChooseBuffer
    \/ \E c \in {ENTER, ESC, ARROW_UP, ARROW_DOWN} : ChooseKey(c)
    \/ \E str \in StatusTexts : Status(str)

SpecBuffers == InitBuffers /\ [][NextBuffers]_vars

(* ---------------------------- a key session ---------------------------- *)
isprint(c) == c >= 32 /\ c <= 126

\* `Search: `, the query, ` (Use ESC/Arrows/Enter)`
SearchStatus(query) ==
    <<83, 101, 97, 114, 99, 104, 58, 32>> \o query \o
    <<32, 40, 85, 115, 101, 32, 69, 83, 67, 47, 65, 114, 114, 111, 119, 115, 47, 69, 110,
      116, 101, 114, 41>>

\* The prompt of the script: `> `
PromptText == <<62, 32>>

\* The locals of find_lua and of get_input before their loop.
Saved(w) ==
    [NoSub EXCEPT !.saved_cx = w.file.cx, !.saved_cy = w.file.cy,
                  !.saved_coloff = w.file.coloff, !.saved_rowoff = w.file.rowoff,
                  !.entry = Entry(w)]

\* The cursor put back where the loop found it.
RestoreCursor(f, s) ==
    [f EXCEPT !.cx = s.saved_cx, !.cy = s.saved_cy,
              !.coloff = s.saved_coloff, !.rowoff = s.saved_rowoff]

\* The query without its last byte: if (qlen != 0) query[--qlen] = '\0'
Shorter(query) == IF query = <<>> THEN query ELSE SubSeq(query, 1, Len(query) - 1)

\* FIND_RESTORE_HL: rsize bytes, the size the row has now, are copied from saved_hl
\* over the row's hl.  saved_hl holds the bytes the row had when it was saved: where
\* the row has grown since, the bytes read lie past the end of saved_hl and are
\* whatever the heap holds there (junk).
FIND_RESTORE_HL(f, s, junk) ==
    IF s.saved_hl = <<>> THEN f
    ELSE [f EXCEPT !.row[s.saved_hl_line + 1].hl =
              [k \in 1..Len(f.row[s.saved_hl_line + 1].render) |->
                  IF k <= Len(s.saved_hl[1]) THEN s.saved_hl[1][k] ELSE junk]]

\* strstr(render, query): the offset of the first occurrence, -1 for NULL.
strstr(render, query) ==
    LET Here(x) == SubSeq(render, x + 1, x + Len(query)) = query
        Offsets == {x \in 0..(Len(render) - Len(query)) : Here(x)}
    IN IF Offsets = {} THEN -1
       ELSE CHOOSE x \in Offsets : \A y \in Offsets : x <= y

\* A loop that stops at the end of the buffer instead of going around it.
FindRowNoWrap(f, query, last, find_next) ==
    LET Rows == {r \in 0..(f.numrows - 1) :
                    /\ (r - last) * find_next > 0
                    /\ strstr(f.row[r + 1].render, query) >= 0}
    IN IF Rows = {} THEN -1
       ELSE CHOOSE r \in Rows : \A q \in Rows : (r - q) * find_next <= 0

\* The row the loop of find_lua stops on, -1 when it ends without a match: it starts
\* one row from last, steps by find_next and visits numrows rows around the ends of
\* the buffer.
FindRow(f, query, last, find_next) ==
    LET Current(i) == (last + find_next * (i + 1)) % f.numrows
        Matches(i) == strstr(f.row[Current(i) + 1].render, query) >= 0
        Visits == {i \in 0..(f.numrows - 1) : Matches(i)}
    IN IF Visits = {} THEN -1
       ELSE Current(CHOOSE i \in Visits : \A j \in Visits : i <= j)

\* The match on row current is shown: the row's hl is saved and marked, and the cursor
\* is put on the match with the row at the top of the screen.  (row->hl is not NULL:
\* no row of these sessions had all its bytes deleted.)
ShowMatchCut(f, query, current, match_offset) ==
    [f EXCEPT !.row[current + 1].hl =
                  SubSeq(@, 1, match_offset) \o Repeat(HL_MATCH, Len(query)),
              !.cy = 0,
              !.cx = IF match_offset > f.screencols THEN f.screencols ELSE match_offset,
              !.rowoff = current,
              !.coloff = IF match_offset > f.screencols THEN match_offset - f.screencols
                         ELSE 0]

ShowMatch(f, query, current, match_offset) ==
    [f EXCEPT !.row[current + 1].hl =
                  [k \in 1..Len(@) |->
                      IF k > match_offset /\ k <= match_offset + Len(query)
                      THEN HL_MATCH ELSE @[k]],
              !.cy = 0,
              !.cx = IF match_offset > f.screencols THEN f.screencols ELSE match_offset,
              !.rowoff = current,
              !.coloff = IF match_offset > f.screencols THEN match_offset - f.screencols
                         ELSE 0]

\* The locals after the key is handled, before the search.
Keyed(s, c) ==
    IF c = DEL_KEY \/ c = CTRL_H \/ c = BACKSPACE
    THEN [s EXCEPT !.query = Shorter(@), !.last_match = -1]
    ELSE IF c = ARROW_RIGHT \/ c = ARROW_DOWN \/ c = ARROW_LEFT \/ c = ARROW_UP THEN s
    ELSE IF isprint(c) /\ Len(s.query) < KILO_QUERY_LEN
    THEN [s EXCEPT !.query = Append(@, c), !.last_match = -1]
    ELSE s

\* find_next when the search starts: if (last_match == -1) find_next = 1
FindNext(s1, c) ==
    IF s1.last_match = -1 THEN 1
    ELSE IF c = ARROW_RIGHT \/ c = ARROW_DOWN THEN 1
    ELSE IF c = ARROW_LEFT \/ c = ARROW_UP THEN -1
    ELSE 0

\* if (find_next) { ... }: the buffer after the search for the query of s1, which
\* stopped on row current, and the locals.
Searched(f, s, s1, find_next, current, junk) ==
    IF find_next = 0 THEN f
    ELSE IF current < 0 THEN FIND_RESTORE_HL(f, s, junk)
    ELSE ShowMatch(FIND_RESTORE_HL(f, s, junk), s1.query, current,
                   strstr(f.row[current + 1].render, s1.query))

SearchedLocals(f, s1, find_next, current) ==
    IF find_next = 0 THEN s1
    ELSE IF current < 0 THEN [s1 EXCEPT !.saved_hl = <<>>]
    ELSE [s1 EXCEPT !.last_match = current, !.saved_hl_line = current,
                    !.saved_hl = <<f.row[current + 1].hl>>]

\* One turn of find_lua's loop from the key read to the status line of the next turn:
\* the editor, the locals, and whether find_lua has returned.
find_key(w, s, c, junk) ==
    LET Turn(s1, find_next, current) ==
            [w |-> editorSetStatusMessage(
                       [w EXCEPT !.file = Searched(@, s, s1, find_next, current, junk)],
                       1, SearchStatus(s1.query)),
             s |-> SearchedLocals(FIND_RESTORE_HL(w.file, s, junk), s1, find_next, current),
             done |-> FALSE]
        Scan(s1, find_next) ==
            Turn(s1, find_next,
                 IF find_next = 0 \/ w.file.numrows = 0 THEN -1
                 ELSE FindRow(w.file, s1.query, s1.last_match, find_next))
    IN IF c = ESC \/ c = ENTER
       THEN [w |-> [w EXCEPT !.file = FIND_RESTORE_HL(IF c = ESC THEN RestoreCursor(@, s)
                                                      ELSE @, s, junk),
                             !.E.statusmsg = <<>>],
             s |-> NoSub, done |-> TRUE]
       ELSE Scan(Keyed(s, c), FindNext(Keyed(s, c), c))

\* One turn of get_input's loop, from the key read to the status line of the next turn;
\* ret is what get_input returns, NULL on ESC.
get_input_key(w, s, c) ==
    LET Shown(s1) == [w |-> [w EXCEPT !.E.statusmsg = PromptText \o s1.query], s |-> s1,
                      done |-> FALSE, ret |-> Nil]
        Left(got) == [w |-> [w EXCEPT !.file = RestoreCursor(@, s), !.E.statusmsg = <<>>],
                      s |-> NoSub, done |-> TRUE, ret |-> got]
    IN IF c = DEL_KEY \/ c = CTRL_H \/ c = BACKSPACE
       THEN Shown([s EXCEPT !.query = Shorter(@)])
       ELSE IF c = ESC THEN Left(Nil)
       ELSE IF c = ENTER THEN Left(Text(s.query))
       ELSE IF isprint(c) /\ Len(s.query) < KILO_QUERY_LEN
       THEN Shown([s EXCEPT !.query = Append(@, c)])
       ELSE Shown(s)

\* The keys of a session: every sequence of at most MaxKeys of them, and `foo`, down,
\* down, up and ESC.
Keys == {102, 111, ARROW_DOWN, ARROW_UP, ARROW_LEFT, ARROW_RIGHT, BACKSPACE, ENTER, ESC}
FooDownDownUp == <<102, 111, 111, ARROW_DOWN, ARROW_DOWN, ARROW_UP, ESC>>
KeyTexts == UNION {[1..n -> Keys] : n \in 0..MaxKeys} \cup {FooDownDownUp}

\* The next key of one of the sessions is c.
NextKey(c) ==
    \E text \in KeyTexts :
        /\ Len(text) > Len(typed)
        /\ SubSeq(text, 1, Len(typed) + 1) = Append(typed, c)

\* `bar`, `foobar`, `foo`, a line each
BarFoobarFoo == <<98, 97, 114, NL, 102, 111, 111, 98, 97, 114, NL, 102, 111, 111, NL>>

\* The files kilua is started on.
KeyFiles == {BarFoobarFoo, <<102, NL, 102, NL, 102, NL>>}

\* on_idle called whenever a second passes without a key, in a sub-loop too.
IdleAnywhere ==
    /\ pc \in {"run", "find", "prompt", "choose"}
    /\ called' = <<"on_idle">>
    /\ lastOp' = "idle"
    /\ ret' = Nil
    /\ UNCHANGED <<tty, file, others, E, sub, typed, disk, pc>>

\* The main loop's wait for input times out: on_idle.
Idle ==
    /\ Running
    /\ called' = <<"on_idle">>
    /\ lastOp' = "idle"
    /\ ret' = Nil
    /\ UNCHANGED <<tty, file, others, E, sub, typed, disk, pc>>

\* A key whose on_key calls find(): the locals are set and the first status line logged.
Find ==
    /\ Running
    /\ typed = <<>>
    /\ Becomes(editorSetStatusMessage(W, 1, SearchStatus(<<>>)))
    /\ sub' = Saved(W)
    /\ pc' = "find"
    /\ called' = <<"on_key">>
    /\ lastOp' = "find"
    /\ ret' = Nil
    /\ UNCHANGED <<tty, typed, disk>>

\* The loop of find_lua reads a key.
FindKey(c, junk) ==
    /\ pc = "find"
    /\ NextKey(c)
    /\ Becomes(find_key(W, sub, c, junk).w)
    /\ sub' = find_key(W, sub, c, junk).s
    /\ pc' = IF find_key(W, sub, c, junk).done THEN "run" ELSE "find"
    /\ typed' = Append(typed, c)
    /\ called' = <<>>
    /\ lastOp' = KeyRead(c)
    /\ ret' = Nil
    /\ UNCHANGED <<tty, disk>>

\* A key whose on_key calls prompt().
Prompt ==
    /\ Running
    /\ typed = <<>>
    /\ Becomes([W EXCEPT !.E.statusmsg = PromptText])
    /\ sub' = Saved(W)
    /\ pc' = "prompt"
    /\ called' = <<"on_key">>
    /\ lastOp' = "prompt"
    /\ ret' = Nil
    /\ UNCHANGED <<tty, typed, disk>>

\* The loop of get_input reads a key.
PromptKey(c) ==
    /\ pc = "prompt"
    /\ NextKey(c)
    /\ Becomes(get_input_key(W, sub, c).w)
    /\ sub' = get_input_key(W, sub, c).s
    /\ pc' = IF get_input_key(W, sub, c).done THEN "run" ELSE "prompt"
    /\ typed' = Append(typed, c)
    /\ called' = <<>>
    /\ lastOp' = KeyRead(c)
    /\ ret' = get_input_key(W, sub, c).ret
    /\ UNCHANGED <<tty, disk>>

InitKeys ==
    /\ \E text \in KeyFiles :
           Starts([main(ScreenRows, ScreenCols) EXCEPT
                       !.file = editorOpen(@, "t", OnDisk(text))])
    /\ sub = NoSub
    /\ called = <<>>
    /\ typed = <<>>
    /\ disk = NoFile
    /\ ret = Nil
    /\ tty = InTerminal
    /\ pc = "run"
    /\ lastOp = "init"

NextKeys ==
    \/ Idle
    \/ \E offset \in {0, 1} : SelectBuffer(offset)
    \/ Find
    \/ \E c \in Keys, junk \in {HL_NORMAL, HL_MATCH} : FindKey(c, junk)
    \/ Prompt
    \/ \E c \in Keys : PromptKey(c)
    \/ ChooseBuffer
    \/ \E c \in Keys : ChooseKey(c)

SpecKeys == InitKeys /\ [][NextKeys]_vars

(* ---------------------------- a logged session ------------------------- *)
\* No buffer has more than MaxLog lines logged after the help.
LogFits == \A k \in 1..Len(Buffers) : Buffers[k].numrows < MaxLog + 2

\* save(path) in an editor with a *Messages* buffer.
SaveLogged(path, io, n) ==
    /\ LogFits
    /\ io = "write" => n < FileBytes(file)
    /\ Save(path, io, n)

InitLog ==
    /\ Starts(main(ScreenRows, ScreenCols))
    /\ sub = NoSub
    /\ called = <<>>
    /\ typed = <<>>
    /\ disk = NoFile
    /\ ret = Nil
    /\ tty = InTerminal
    /\ pc = "run"
    /\ lastOp = "init"

NextLog ==
    \/ \E offset \in {0, 1} : SelectBuffer(offset)
    \/ \E c \in {97, NL} : InsertSmall(c)
    \/ \E path \in {"", "t"}, io \in {"ok", "open", "ftruncate", "write"} :
           SaveLogged(path, io, 0)

SpecLog == InitLog /\ [][NextLog]_vars

(* ---------------------------- a killing session ------------------------ *)
\* eol(): ARROW_RIGHT once for every rendered column from the cursor's to rsize.
eol_lua(f) ==
    IF HasRow(f, FileRow(f))
    THEN MoveTimes(f, ARROW_RIGHT, Len(f.row[FileRow(f) + 1].render) - FileCol(f))
    ELSE f

\* kill(): eol(), then delete() once for every rendered byte of the row the cursor is
\* on, then right() and delete().
kill_line_lua(f) ==
    LET Emptied(f1) ==
            DeleteTimes(f1, IF HasRow(f1, FileRow(f1))
                            THEN Len(f1.row[FileRow(f1) + 1].render) ELSE 0)
        Joined(f2) == IF f2.fault THEN f2 ELSE delete_lua(editorMoveCursor(f2, ARROW_RIGHT))
    IN Joined(Emptied(eol_lua(f)))

\* The files of a killing session: at most MaxKillLen bytes of "a", TAB and "\n".
KillTexts == UNION {[1..n -> {97, TAB, NL}] : n \in 0..MaxKillLen}

Kill ==
    /\ Running
    /\ file' = kill_line_lua(file)
    /\ lastOp' = "kill"
    /\ ret' = Nil
    /\ called' = <<>>
    /\ UNCHANGED <<tty, others, E, sub, typed, disk, pc>>

InitKill ==
    /\ \E text \in KillTexts :
           file = editorOpen(initEditor(ScreenRows, ScreenCols), "t", OnDisk(text))
    /\ disk = NoFile
    /\ Alone
    /\ ret = Nil
    /\ tty = InTerminal
    /\ pc = "run"
    /\ lastOp = "init"

NextKill ==
    \/ \E key \in {ARROW_LEFT, ARROW_RIGHT, ARROW_UP, ARROW_DOWN} : Move(key)
    \/ Kill

SpecKill == InitKill /\ [][NextKill]_vars

(* --------------------------- a start of the process -------------------- *)
\* main() from its first line to the call of enableRawMode: the configuration
\* files, the options and the files named on the command line.  config is
\* "loaded", "none" or "erred"; fopen is "none" with no file named and the errno
\* of fopen() otherwise.
ParseArgs(config, version, fopen) ==
    /\ pc = "args"
    /\ IF config = "erred"
       THEN /\ tty' = exit(tty, 1) /\ pc' = "exit" /\ lastOp' = "load_lua"
            /\ UNCHANGED <<file, others, E>>
       ELSE IF version
       THEN /\ tty' = exit(tty, 0) /\ pc' = "exit" /\ lastOp' = "version"
            /\ UNCHANGED <<file, others, E>>
       ELSE IF config = "none"
       THEN /\ tty' = exit(tty, 1) /\ pc' = "exit" /\ lastOp' = "no_config"
            /\ UNCHANGED <<file, others, E>>
       ELSE IF fopen = "EACCES"
       THEN /\ tty' = exit(tty, 1) /\ pc' = "exit" /\ lastOp' = "open_failed"
            /\ Becomes(create_buffer(W, "f"))
       ELSE /\ tty' = tty /\ pc' = "raw" /\ lastOp' = "args"
            /\ Becomes(create_buffer(W, ""))
    /\ ret' = Nil
    /\ called' = <<>>
    /\ UNCHANGED <<sub, typed, disk>>

\* main() from the call of enableRawMode to the main loop.
EnterRawMode(tcget, tcset) ==
    /\ pc = "raw"
    /\ tty' = enableRawMode(tty, tcget, tcset).t
    /\ ret' = Num(enableRawMode(tty, tcget, tcset).ret)
    /\ Becomes(editorSetStatusMessage(W, 1, HelpMessage))
    /\ pc' = "run"
    /\ lastOp' = "enableRawMode"
    /\ called' = <<>>
    /\ UNCHANGED <<sub, typed, disk>>

\* exit() from a script.
ExitLua ==
    /\ Running
    /\ tty' = exit(tty, 0)
    /\ pc' = "exit"
    /\ lastOp' = "exit"
    /\ ret' = Nil
    /\ called' = <<>>
    /\ UNCHANGED <<file, others, E, sub, typed, disk>>

\* editorReadKey() when read() fails.
ReadError ==
    /\ Running
    /\ tty' = exit(tty, 1)
    /\ pc' = "exit"
    /\ lastOp' = "read_error"
    /\ ret' = Nil
    /\ called' = <<>>
    /\ UNCHANGED <<file, others, E, sub, typed, disk>>

\* open(name) when fopen() fails and the file exists.
OpenFailed(name) ==
    /\ Running
    /\ file' = editorOpen(file, name, NoFile)
    /\ tty' = exit(tty, 1)
    /\ pc' = "exit"
    /\ lastOp' = "open_failed"
    /\ ret' = Nil
    /\ called' = <<>>
    /\ UNCHANGED <<others, E, sub, typed, disk>>

InitStart ==
    /\ \E isatty \in BOOLEAN : tty = Process(isatty)
    /\ Starts(Editor([initEditor(ScreenRows, ScreenCols) EXCEPT !.filename = MessagesName],
                     <<>>, [max_files |-> 1, current_file |-> 0, statusmsg |-> <<>>]))
    /\ sub = NoSub
    /\ called = <<>>
    /\ typed = <<>>
    /\ disk = NoFile
    /\ ret = Nil
    /\ pc = "args"
    /\ lastOp = "init"

NextStart ==
    \/ \E config \in {"loaded", "none", "erred"}, version \in BOOLEAN,
          fopen \in {"none", "EACCES"} : ParseArgs(config, version, fopen)
    \/ \E tcget \in BOOLEAN, tcset \in BOOLEAN : EnterRawMode(tcget, tcset)
    \/ \E c \in Typed \cup {NL} : Insert(c)
    \/ KillBuffer
    \/ ExitLua
    \/ ReadError
    \/ OpenFailed("f")

SpecStart == InitStart /\ [][NextStart]_vars

(* --------------------------- a keyboard session ------------------------ *)
\* editorReadKey() on a burst of bytes from the terminal, after which read() times
\* out: the key it returns and the bytes it used.  k bytes are read already; the
\* first was ESC.
ReadEscapeGivesUp(s, k) == [key |-> ESC, used |-> Len(s)]

RECURSIVE ReadEscape(_, _)
ReadEscape(s, k) ==
    LET seq0 == s[k + 1]
        seq1 == s[k + 2]
        Key(code, n) == [key |-> code, used |-> k + n]
    IN IF Len(s) < k + 2 THEN [key |-> ESC, used |-> Len(s)]
       ELSE IF seq0 = 91      \* '['
       THEN IF seq1 >= 48 /\ seq1 <= 57
            THEN IF Len(s) < k + 3 THEN [key |-> ESC, used |-> Len(s)]
                 ELSE IF s[k + 3] = 126 /\ seq1 = 51 THEN Key(DEL_KEY, 3)
                 ELSE IF s[k + 3] = 126 /\ seq1 = 53 THEN Key(PAGE_UP, 3)
                 ELSE IF s[k + 3] = 126 /\ seq1 = 54 THEN Key(PAGE_DOWN, 3)
                 ELSE ReadEscape(s, k + 3)
            ELSE IF seq1 = 65 THEN Key(ARROW_UP, 2)
            ELSE IF seq1 = 66 THEN Key(ARROW_DOWN, 2)
            ELSE IF seq1 = 67 THEN Key(ARROW_RIGHT, 2)
            ELSE IF seq1 = 68 THEN Key(ARROW_LEFT, 2)
            ELSE IF seq1 = 72 THEN Key(HOME_KEY, 2)
            ELSE IF seq1 = 70 THEN Key(END_KEY, 2)
            ELSE ReadEscape(s, k + 2)
       ELSE IF seq0 = 79      \* 'O'
       THEN IF seq1 = 72 THEN Key(HOME_KEY, 2)
            ELSE IF seq1 = 70 THEN Key(END_KEY, 2)
            ELSE ReadEscape(s, k + 2)
       ELSE ReadEscape(s, k + 2)

editorReadKey(s) ==
    IF s[1] = ESC THEN ReadEscape(s, 1) ELSE [key |-> s[1], used |-> 1]

\* The string editorProcessKeypress hands to on_key: tmp[0] is a char, which keeps
\* the low eight bits of the key, and tmp is a C string, empty when tmp[0] is 0.
OnKeyArgument(key) == IF key % 256 = NUL THEN <<>> ELSE <<key % 256>>

editorProcessKeypress(s) ==
    [arg |-> OnKeyArgument(editorReadKey(s).key), used |-> editorReadKey(s).used]

\* The bursts the terminal sends: a key's bytes arrive together.
EscapeBursts ==
    {<<ESC, 91, c>> : c \in {65, 66, 67, 68, 72, 70, 90}}
        \cup {<<ESC, 79, c>> : c \in {72, 70}}
        \cup {<<ESC, 91, d, 126>> : d \in {51, 53, 54}}
        \cup {<<ESC>>, <<ESC, 91>>, <<ESC, 91, 51>>, <<ESC, 91, 49, 126>>}
ByteBursts == {<<b>> : b \in {NUL, 97, 127, 231, 232, 236, 240, 241}}
SymbolicBursts ==
    EscapeBursts \ {<<ESC>>, <<ESC, 91>>, <<ESC, 91, 90>>, <<ESC, 91, 51>>, <<ESC, 91, 49, 126>>}
Bursts == EscapeBursts \cup ByteBursts

\* The main loop's select() finds input: one key is read and handed to on_key.
Keypress(s) ==
    /\ Running
    /\ Len(typed) + editorReadKey(s).used <= MaxReadLen
    /\ typed' = typed \o SubSeq(s, 1, editorReadKey(s).used)
    /\ ret' = Text(editorProcessKeypress(s).arg)
    /\ called' = <<"on_key">>
    /\ lastOp' = "keypress"
    /\ UNCHANGED <<tty, file, others, E, sub, disk, pc>>

InitRead ==
    /\ file = initEditor(ScreenRows, ScreenCols)
    /\ disk = NoFile
    /\ Alone
    /\ ret = Nil
    /\ tty = InTerminal
    /\ pc = "run"
    /\ lastOp = "init"

NextRead ==
    \/ \E s \in Bursts : Keypress(s)
    \/ ReadError

SpecRead == InitRead /\ [][NextRead]_vars

(* --------------------- an editing session with a syntax ---------------- *)
\* Every text of at most MaxEditLen bytes of "/", "*" and "\n".
EditTexts == UNION {[1..n -> {47, 42, NL}] : n \in 0..MaxEditLen}

\* The script's syntax: no keywords, comments "//" and "/*" to "*/".
WithComments(f) ==
    set_syntax_comments_lua(set_syntax_keywords_lua(f, <<>>),
                            <<47, 47>>, CommentOpen, CommentClose)

InsertEdit(c) ==
    /\ file.dirty < MaxEditDirty
    /\ Insert(c)

DeleteEdit ==
    /\ file.dirty < MaxEditDirty
    /\ Delete

KillEdit ==
    /\ file.dirty < MaxEditDirty
    /\ Kill

\* The editor started on a file of one of the texts with the syntax set; the bytes
\* in front of a row's memory match the closing delimiter or do not.
InitEdit ==
    /\ \E text \in EditTexts, oob \in BOOLEAN :
           file = WithComments(editorOpen([initEditor(ScreenRows, ScreenCols)
                                              EXCEPT !.oob = oob], "t", OnDisk(text)))
    /\ disk = NoFile
    /\ Alone
    /\ ret = Nil
    /\ tty = InTerminal
    /\ pc = "run"
    /\ lastOp = "init"

NextEdit ==
    \/ \E key \in {ARROW_LEFT, ARROW_RIGHT, ARROW_UP, ARROW_DOWN} : Move(key)
    \/ \E c \in {47, 42, NL} : InsertEdit(c)
    \/ DeleteEdit
    \/ KillEdit

SpecEdit == InitEdit /\ [][NextEdit]_vars

(* ------------------------ an undoing session --------------------------- *)
\* Every text of at most MaxWideLen bytes of "a" and "\n": rows wider than the screen.
WideTexts == UNION {[1..n -> {97, NL}] : n \in 0..MaxWideLen}

\* The editor started on a file of one of the texts.
InitWide ==
    /\ \E text \in WideTexts :
           file = editorOpen(initEditor(ScreenRows, ScreenCols), "t", OnDisk(text))
    /\ disk = NoFile
    /\ Alone
    /\ ret = Nil
    /\ tty = InTerminal
    /\ pc = "run"
    /\ lastOp = "init"

NextWide ==
    \/ \E key \in {ARROW_LEFT, ARROW_RIGHT, ARROW_UP, ARROW_DOWN} : Move(key)
    \/ \E c \in {97, NL} : InsertEdit(c)
    \/ DeleteEdit

SpecWide == InitWide /\ [][NextWide]_vars

(* ------------------------- a session of two views --------------------- *)
\* The texts of the file that is open in two buffers.
TwinTexts == UNION {[1..n -> {97, NL}] : n \in 0..MaxTwinLen}

\* The editor after a script opened the same file in a first and in a second buffer.
TwoViews(text) ==
    LET w == create_buffer(Editor(editorOpen(initEditor(ScreenRows, ScreenCols), "t", OnDisk(text)),
                                  <<>>,
                                  [max_files |-> 1, current_file |-> 0, statusmsg |-> HelpMessage]),
                           "")
    IN [w EXCEPT !.file = editorOpen(@, "t", OnDisk(text))]

InitTwin ==
    /\ \E text \in TwinTexts : Starts(TwoViews(text))
    /\ sub = NoSub
    /\ called = <<>>
    /\ typed = <<>>
    /\ disk = NoFile
    /\ ret = Nil
    /\ tty = InTerminal
    /\ pc = "run"
    /\ lastOp = "init"

NextTwin ==
    \/ \E key \in {ARROW_LEFT, ARROW_RIGHT, ARROW_UP, ARROW_DOWN} : Move(key)
    \/ NextBuffer

SpecTwin == InitTwin /\ [][NextTwin]_vars

(* --------------------------- a session of strings ---------------------- *)
\* Every text of at most MaxStringLen bytes of `"`, `\` and "\n".
StringTexts == UNION {[1..n -> {34, 92, NL}] : n \in 0..MaxStringLen}

\* The editor started on a file of one of the texts, no syntax set yet.
InitString ==
    /\ \E text \in StringTexts :
           file = editorOpen(initEditor(ScreenRows, ScreenCols), "t", OnDisk(text))
    /\ disk = NoFile
    /\ Alone
    /\ ret = Nil
    /\ tty = InTerminal
    /\ pc = "run"
    /\ lastOp = "init"

NextString ==
    \/ \E keywords \in {<<>>} : SetSyntaxKeywords(keywords)
    \/ \E c \in {34, 92} : InsertEdit(c)
    \/ \E key \in {ARROW_LEFT, ARROW_RIGHT} : Move(key)

SpecString == InitString /\ [][NextString]_vars

(* ------------------------------- claims ------------------------------- *)
\* The visible cursor is on the screen and the offsets are not negative.
CursorInBounds(f) ==
    /\ 0 <= f.cx /\ f.cx < f.screencols
    /\ 0 <= f.cy /\ f.cy < f.screenrows
    /\ f.coloff >= 0
    /\ f.rowoff >= 0

\* C1: a cursor motion started with the cursor on the screen leaves 0 <= cx < screencols,
\* 0 <= cy < screenrows, coloff >= 0 and rowoff >= 0.
C1_MotionKeepsCursorOnScreen ==
    [][(lastOp' = "move" /\ CursorInBounds(file)) => CursorInBounds(file')]_vars

EditsAndSearches == {"delete_char", "delete_row", "insert_char", "insert_newline", "search_match"}

\* C2: delete (the join at column 0 included), inserting a byte, inserting a newline and a
\* search that matched, started with the cursor on the screen, leave it on the screen
\* with offsets that are not negative.
C2_EditKeepsCursorOnScreen ==
    [][(lastOp' \in EditsAndSearches /\ CursorInBounds(file)) => CursorInBounds(file')]_vars

\* C3: whatever rows were inserted and deleted, the row at position i has idx = i.
C3_RowIndexIsPosition ==
    /\ Len(file.row) = file.numrows
    /\ \A i \in 0..(file.numrows - 1) : file.row[i + 1].idx = i

\* A row was just joined away from the middle of the buffer, and rows follow the cursor's.
C3_RowDeletedBeforeOthers ==
    /\ lastOp = "delete_row"
    /\ ~file.fault
    /\ FileRow(file) >= 0
    /\ FileRow(file) + 1 < file.numrows

\* The bytes of the buffer's rows.
RowBytes(f) == [i \in 1..f.numrows |-> f.row[i].chars]

Resets == {"save_ok", "open", "reopen"}

C5_SaveOpenRoundTrip ==
    [][lastOp' = "reopen" =>
           /\ RowBytes(file') = RowBytes(file)
           /\ file'.numrows = file.numrows
           /\ file'.dirty = 0]_vars

\* Rows were read back after a save, one of them ending in "\r", one of them empty.
C5_ReopenedRows ==
    /\ lastOp = "reopen"
    /\ file.numrows >= 2
    /\ \E i \in 1..file.numrows :
           Len(file.row[i].chars) > 0 /\ file.row[i].chars[Len(file.row[i].chars)] = CR
    /\ \E i \in 1..file.numrows : file.row[i].chars = <<>>

\* A position of the buffer: a row, and a column up to the row's length.
InBuffer(f, x, y) == y >= 0 /\ y < f.numrows /\ x >= 0 /\ x <= RowSize(f, y)

\* Both ends of the selection are positions of the buffer.
EndsInBuffer(f) == InBuffer(f, FileCol(f), FileRow(f)) /\ InBuffer(f, f.markx, f.marky)

Min(a, b) == IF a < b THEN a ELSE b

\* The rows from the cursor's to the mark's fit the screen's width, so that no walk
\* scrolls sideways, and hold no TAB, so that a row is rendered as its bytes.
Narrow(f) ==
    /\ f.coloff = 0
    /\ \A r \in 0..(f.numrows - 1) :
           (Min(FileRow(f), f.marky) <= r /\ r <= FileRow(f) + f.marky - Min(FileRow(f), f.marky))
               => /\ RowSize(f, r) < f.screencols
                  /\ f.row[r + 1].render = f.row[r + 1].chars

\* The offset of position (x, y) in the buffer's text, a "\n" after every row.
RECURSIVE Offset(_, _, _)
Offset(f, x, y) == IF y <= 0 THEN x ELSE RowSize(f, y - 1) + 1 + Offset(f, x, y - 1)

\* The offsets of the earlier and the later end of the selection.
FirstEnd(f) == Min(Offset(f, FileCol(f), FileRow(f)), Offset(f, f.markx, f.marky))
LastEnd(f) == Offset(f, FileCol(f), FileRow(f)) + Offset(f, f.markx, f.marky) - FirstEnd(f)

\* The buffer's text from the earlier end to the later end, both included.
DocSpan(f) == SubSeq(editorRowsToString(f), FirstEnd(f) + 1, LastEnd(f) + 1)

\* The cursor put where the mark is (point) and the mark where the cursor was (mark).
Swapped(f) == mark_lua(warp(f, f.markx, f.marky), FileCol(f), FileRow(f))

SameRowSpan(f) ==
    /\ EndsInBuffer(f)
    /\ f.marky = FileRow(f)
    /\ FileCol(f) < f.markx

\* C7 as the specification states it: the selection is the row's bytes at columns
\* a..b-1 and nothing else.
C7_SelectionStopsBeforeMark ==
    (lastOp = "selection" /\ ret.kind = "string" /\ SameRowSpan(file)) =>
        ret.text = SubSeq(file.row[FileRow(file) + 1].chars, FileCol(file) + 1, file.markx)

\* C7 amended: with the cursor at column a and the mark at column b > a of the same row,
\* selection returns b - a + 1 bytes, one for every column a..b, the mark's included; in
\* a row without TAB, the viewport not scrolled sideways and b < screencols, they are
\* the row's bytes at columns a..b, "\n" standing for column b when b is the row's length.
C7_SelectionIncludesMark ==
    (lastOp = "selection" /\ ret.kind = "string" /\ SameRowSpan(file)) =>
        /\ Len(ret.text) = file.markx - FileCol(file) + 1
        /\ (/\ file.coloff = 0 /\ file.markx < file.screencols
            /\ file.row[FileRow(file) + 1].render = file.row[FileRow(file) + 1].chars) =>
               ret.text = SubSeq(Append(file.row[FileRow(file) + 1].chars, NL),
                                 FileCol(file) + 1, file.markx + 1)

\* A selection inside a row was returned, and one up to the row's end.
C7_SelectedInRow ==
    /\ lastOp = "selection" /\ ret.kind = "string" /\ SameRowSpan(file)
    /\ file.coloff = 0 /\ file.markx < file.screencols
    /\ file.row[FileRow(file) + 1].render = file.row[FileRow(file) + 1].chars
    /\ FileCol(file) >= 1
    /\ file.markx = RowSize(file, FileRow(file))

\* The text without the n bytes after offset p.
Without(text, p, n) == SubSeq(text, 1, p) \o SubSeq(text, p + n + 1, Len(text))

\* The buffer f2 is the buffer f with the selection's bytes taken out where they stood;
\* a selection that ends in the last row's "\n" may leave that "\n" in place.
CutOf(f, f2) ==
    LET sel == get_selection(f).text
        text == editorRowsToString(f)
        p == FirstEnd(f)
    IN /\ SubSeq(text, p + 1, p + Len(sel)) = sel
       /\ \/ editorRowsToString(f2) = Without(text, p, Len(sel))
          \/ /\ p + Len(sel) = Len(text)
             /\ editorRowsToString(f2) = Without(text, p, Len(sel) - 1)

\* C8: with a mark set at a position of the buffer other than the cursor's, cut_selection
\* leaves the buffer without exactly the bytes selection returns, no other byte removed
\* or changed, and the mark (-1,-1).
C8_CutRemovesSelection ==
    [][(lastOp' = "cut_selection" /\ pc' = "run" /\ HasSelection(file)
           /\ EndsInBuffer(file) /\ Narrow(file)) =>
           (MarkUnset(file') /\ CutOf(file, file'))]_vars

\* The comment state after the bytes of a row from column i on, scanned for the two
\* delimiters alone.
RECURSIVE ScanComment(_, _, _)
ScanComment(render, i, inside) ==
    IF i >= Len(render) THEN inside
    ELSE IF inside
         THEN IF MatchAt(render, i, CommentClose) THEN ScanComment(render, i + 2, FALSE)
              ELSE ScanComment(render, i + 1, TRUE)
         ELSE IF MatchAt(render, i, CommentOpen) THEN ScanComment(render, i + 2, TRUE)
              ELSE ScanComment(render, i + 1, FALSE)

\* Row r ends inside a comment that the rows up to it opened and did not close.
RECURSIVE EndsInComment(_, _)
EndsInComment(f, r) ==
    IF r < 0 THEN FALSE
    ELSE ScanComment(f.row[r + 1].render, 0, EndsInComment(f, r - 1))

\* The cells of a row that starts inside a comment up to and including the first
\* closing delimiter: all of them when there is none.
RECURSIVE CommentCells(_, _)
CommentCells(render, i) ==
    IF i >= Len(render) THEN Len(render)
    ELSE IF MatchAt(render, i, CommentClose) THEN i + 2
    ELSE CommentCells(render, i + 1)

\* The rows were highlighted with "/*" and "*/" and no single-line comments.
BlockCommentsOnly ==
    /\ lastOp = "set_syntax_comments"
    /\ ~file.fault
    /\ file.syntax.on
    /\ file.syntax.mcs = CommentOpen /\ file.syntax.mce = CommentClose
    /\ file.syntax.scs = <<>>

\* C9: with the two delimiters configured, every row after one that leaves a comment
\* open is tagged MLCOMMENT up to and including the first closing delimiter, whatever
\* it holds, a row of whitespace included.
C9_OpenCommentCoversFollowingRows ==
    BlockCommentsOnly =>
        \A r \in 1..(file.numrows - 1) :
            EndsInComment(file, r - 1) =>
                \A i \in 1..CommentCells(file.row[r + 1].render, 0) :
                    file.row[r + 1].hl[i] = HL_MLCOMMENT

\* The column at which the byte after the first j bytes of a row is rendered.
RenderedColumn(f, r, j) == Len(Render(SubSeq(f.row[r + 1].chars, 1, j), f.tab_size))

\* Byte k of row r (from 0) is the row's first TAB, and a byte follows it.
FirstTabAt(f, r, k) ==
    /\ k + 1 < RowSize(f, r)
    /\ f.row[r + 1].chars[k + 1] = TAB
    /\ \A j \in 1..k : f.row[r + 1].chars[j] # TAB

\* C10: with tab_size = 8, a TAB at column 0 and a TAB at column 3 are rendered as
\* spaces up to column 8: the byte after the TAB is rendered at column 8.
C10_TabReachesColumn8 ==
    \A r \in 0..(file.numrows - 1) : \A k \in {0, 3} :
        (file.tab_size = 8 /\ FirstTabAt(file, r, k)) =>
            /\ RenderedColumn(file, r, k + 1) = 8
            /\ Len(file.row[r + 1].render) > 8
            /\ \A i \in (k + 1)..8 : file.row[r + 1].render[i] = 32
            /\ file.row[r + 1].render[9] = file.row[r + 1].chars[k + 2]

\* The typed text split at its newline bytes, from byte k on, row being the bytes since
\* the last newline.
RECURSIVE SplitFrom(_, _, _)
SplitFrom(text, k, row) ==
    IF k > Len(text) THEN <<row>>
    ELSE IF text[k] = NL THEN <<row>> \o SplitFrom(text, k + 1, <<>>)
    ELSE SplitFrom(text, k + 1, Append(row, text[k]))

\* The rows of the buffer, with empty rows added up to the cursor's row.
PaddedRows(f) ==
    [r \in 1..(IF FileRow(f) + 1 > f.numrows THEN FileRow(f) + 1 ELSE f.numrows) |->
        IF r <= f.numrows THEN f.row[r].chars ELSE <<>>]

\* The bytes typed after the last newline, and the newlines typed.
LastLine(text) == SplitFrom(text, 1, <<>>)[Len(SplitFrom(text, 1, <<>>))]
Newlines(text) == Len(SplitFrom(text, 1, <<>>)) - 1

\* C11: after typing printable bytes and newlines into an empty buffer the rows, padded
\* with empty rows up to the cursor's row, are the typed text split at its newlines, the
\* cursor's file position is (bytes after the last newline, newlines typed), and dirty > 0.
C11_TypedTextIsRows ==
    (lastOp = "type") =>
        /\ ~file.fault
        /\ PaddedRows(file) = SplitFrom(typed, 1, <<>>)
        /\ FileCol(file) = Len(LastLine(typed))
        /\ FileRow(file) = Newlines(typed)
        /\ file.dirty > 0

\* `abc`, newline, `def` typed: rows `abc` and `def`, point (3, 1).
C11_AbcDefTyped ==
    /\ lastOp = "type"
    /\ typed = AbcDef
    /\ file.numrows = 2
    /\ file.row[1].chars = <<97, 98, 99>>
    /\ file.row[2].chars = <<100, 101, 102>>
    /\ FileCol(file) = 3
    /\ FileRow(file) = 1

\* The byte of the cursor's row at the cursor's file column, "\n" at or past its end.
ByteAtCursor(f) ==
    IF HasRow(f, FileRow(f)) /\ FileCol(f) < RowSize(f, FileRow(f))
    THEN f.row[FileRow(f) + 1].chars[FileCol(f) + 1]
    ELSE NL

\* C20: at() returns the byte of the current row at the file column cx + coloff, a
\* newline at or past the end of the row or without a row, whatever coloff is.
C20_AtReadsFileColumn ==
    (lastOp = "at") => ret = Text(<<ByteAtCursor(file)>>)

\* The term the editing session searches for.
Sought == <<97>>

\* The term occurs in row r of the buffer at column x.
OccursAt(f, term, r, x) ==
    /\ r >= 0 /\ r < f.numrows /\ x >= 0
    /\ x + Len(term) <= RowSize(f, r)
    /\ SubSeq(f.row[r + 1].chars, x + 1, x + Len(term)) = term

\* Position (r, x) comes before (s, y) in a scan that starts one past the cursor of f
\* and wraps around the end of the buffer.
PastCursor(f, r, x) == r > FileRow(f) \/ (r = FileRow(f) /\ x > FileCol(f))
ScannedBefore(f, r, x, s, y) ==
    IF PastCursor(f, r, x) = PastCursor(f, s, y) THEN r < s \/ (r = s /\ x < y)
    ELSE PastCursor(f, r, x)

\* (r, x) is the first occurrence of the term in that scan, the cursor's own position
\* left out.
FirstOccurrence(f, term, r, x) ==
    /\ OccursAt(f, term, r, x)
    /\ <<r, x>> # <<FileRow(f), FileCol(f)>>
    /\ \A s \in 0..(f.numrows - 1), y \in 0..MaxLen :
           (OccursAt(f, term, s, y) /\ <<s, y>> # <<FileRow(f), FileCol(f)>>
                /\ <<s, y>> # <<r, x>>) => ScannedBefore(f, r, x, s, y)

\* C15: search(pattern) with the pattern somewhere else than at the cursor returns the
\* length of the pattern and leaves the cursor on the first occurrence met when scanning
\* from one past the cursor, row by row and column by column, wrapping around the end of
\* the buffer back to the rows and columns before the cursor.
C15_SearchFindsFirstOccurrence ==
    [][(lastOp' \in {"search_match", "search_none"} /\ ~file'.fault) =>
          \A r \in 0..(file.numrows - 1), x \in 0..MaxLen :
              FirstOccurrence(file, Sought, r, x) =>
                  /\ ret' = Num(Len(Sought))
                  /\ FileRow(file') = r
                  /\ FileCol(file') = x]_vars

\* C12: after initialisation and after any sequence of create_buffer, kill_buffer,
\* next_buffer, prev_buffer, select_buffer, choose_buffer and logged status lines the
\* buffer list is not empty and 0 <= current < number of buffers.
C12_CurrentBufferExists ==
    /\ E.max_files >= 1
    /\ Len(others) + 1 = E.max_files
    /\ E.current_file >= 0
    /\ E.current_file < E.max_files

\* A line was logged while the last of MaxFiles buffers was the current one.
C12_LoggedFromLastBuffer ==
    /\ lastOp = "status"
    /\ E.max_files = MaxFiles
    /\ E.current_file = MaxFiles - 1
    /\ C12_CurrentBufferExists

RowContains(f, r, query) == \E x \in 0..RowSize(f, r) : OccursAt(f, query, r, x)

\* The rows passed over on the way from row `from` to row `to`, stepping by dir around
\* the ends of a buffer of n rows.
RowsBetween(from, to, dir, n) ==
    IF dir = 1 THEN (to - from - 1) % n ELSE (from - to - 1) % n

\* Row r is the first row after `from`, in direction dir, that contains the query.
NextMatch(f, r, query, from, dir) ==
    /\ r >= 0 /\ r < f.numrows
    /\ RowContains(f, r, query)
    /\ \A q \in 0..(f.numrows - 1) :
           RowContains(f, q, query) =>
               RowsBetween(from, r, dir, f.numrows) <= RowsBetween(from, q, dir, f.numrows)

\* The direction of an arrow key, 0 for another key.
ArrowDirection(c) ==
    IF c = ARROW_DOWN \/ c = ARROW_RIGHT THEN 1
    ELSE IF c = ARROW_UP \/ c = ARROW_LEFT THEN -1 ELSE 0

\* The buffer of the file `bar`, `foobar`, `foo` is the current one.
OnBarFoobarFoo ==
    /\ file.filename = "t"
    /\ [k \in 1..Len(file.row) |-> file.row[k].chars] =
           <<(<<98, 97, 114>>), (<<102, 111, 111, 98, 97, 114>>), (<<102, 111, 111>>)>>

\* C14: in find, with a match shown and the query unchanged, ARROW_DOWN or ARROW_RIGHT
\* moves the match to the next row after the last match that contains the query, around
\* the end of the buffer, and ARROW_UP or ARROW_LEFT to the previous one, around its
\* start; the cursor of a file buffer is put on that row.  In `bar`, `foobar`, `foo`
\* the query `foo` matches row 1, then row 2, then row 1 again.
C14_ArrowsCycleMatches ==
    [][/\ (/\ pc = "find" /\ pc' = "find"
           /\ sub.last_match # -1
           /\ ArrowDirection(typed'[Len(typed')]) # 0
           /\ \E r \in 0..(file.numrows - 1) : RowContains(file, r, sub.query)) =>
              /\ sub'.query = sub.query
              /\ NextMatch(file, sub'.last_match, sub.query, sub.last_match,
                           ArrowDirection(typed'[Len(typed')]))
              /\ file.filename # MessagesName =>
                     /\ FileRow(file') = sub'.last_match
                     /\ \E x \in 0..RowSize(file, sub'.last_match) :
                            /\ OccursAt(file, sub.query, sub'.last_match, x)
                            /\ FileCol(file') = x
                            /\ \A k \in 1..Len(sub.query) :
                                   file'.row[sub'.last_match + 1].hl[x + k] = HL_MATCH
       /\ (pc' = "find" /\ OnBarFoobarFoo') =>
              /\ typed' = <<102, 111, 111>> => sub'.last_match = 1
              /\ typed' = <<102, 111, 111, ARROW_DOWN>> => sub'.last_match = 2
              /\ typed' = <<102, 111, 111, ARROW_DOWN, ARROW_DOWN>> => sub'.last_match = 1
      ]_vars

\* `foo` was typed and ARROW_DOWN pressed twice in `bar`, `foobar`, `foo`.
C14_FooDownDown ==
    /\ pc = "find"
    /\ OnBarFoobarFoo
    /\ typed = <<102, 111, 111, ARROW_DOWN, ARROW_DOWN>>
    /\ sub.last_match = 1
    /\ FileRow(file) = 1

\* No byte of any row of any buffer is highlighted as a match.
NoMatchShown ==
    \A b \in 1..Len(Buffers) : \A r \in 1..Len(Buffers[b].row) :
        \A k \in 1..Len(Buffers[b].row[r].hl) : Buffers[b].row[r].hl[k] # HL_MATCH

\* C18: ESC in a prompt, a find or a buffer chooser ends the sub-loop with cx, cy,
\* coloff, rowoff and the index of the current buffer as they were when the sub-loop
\* was entered, and with no match highlighted on any row.
C18_EscRestores ==
    [][(pc \in {"find", "prompt", "choose"} /\ lastOp' = "esc") =>
           /\ pc' = "run"
           /\ Entry(W)' = sub.entry
           /\ NoMatchShown']_vars

\* C19: on_idle is invoked once by a turn of the main loop whose wait for input times
\* out and by nothing else: not by a turn that had input, and not while a prompt, a
\* find or a buffer chooser reads keys.
C19_IdleOnlyOnTimeout ==
    [][/\ lastOp' = "idle" => (called' = <<"on_idle">> /\ pc = "run" /\ pc' = "run")
       /\ lastOp' # "idle" => \A k \in 1..Len(called') : called'[k] # "on_idle"
       /\ pc # "run" => \A k \in 1..Len(called') : called'[k] # "on_idle"]_vars

\* The wait timed out after a sub-loop had read keys and returned.
C19_IdleAfterKeys ==
    /\ lastOp = "idle"
    /\ called = <<"on_idle">>
    /\ typed # <<>>
    /\ pc = "run"

\* C16: search without a match returns 0, sets the status line to `No match found` and
\* leaves cx, cy, coloff and rowoff of the current buffer as they were before the call.
C16_NoMatchRestoresCursor ==
    [][lastOp' = "search_none" =>
           /\ ret' = Num(0)
           /\ E'.statusmsg = NoMatchFound
           /\ file'.cx = file.cx /\ file'.cy = file.cy
           /\ file'.coloff = file.coloff /\ file'.rowoff = file.rowoff]_vars

\* The message of a failed save.
SaveFailure == CantSave \o InputOutputError

\* The buffer is the one editorSetStatusMessage logs to: the first named *Messages*.
LogsToCurrent(w) ==
    /\ w.file.filename = MessagesName
    /\ \A k \in 1..w.E.current_file : w.others[k].filename # MessagesName

\* C17 as stated: a save that fails sets the status line to `Can't save! I/O error: `
\* and the error, leaves the dirty counter and the rows of the current buffer unchanged
\* and does not invoke on_saved.
C17_FailedSaveLeavesBuffer ==
    [][lastOp' = "save_failed" =>
           /\ E'.statusmsg = SaveFailure
           /\ file'.dirty = file.dirty
           /\ file'.row = file.row
           /\ called' = <<>>]_vars

\* C17: a save that fails sets the status line to `Can't save! I/O error: ` and the
\* error and does not invoke on_saved; it leaves the dirty counter and the rows of the
\* current buffer unchanged unless that buffer is the *Messages* buffer, where the
\* message and a newline are typed at the cursor.
C17_FailedSaveLogsOnly ==
    [][lastOp' = "save_failed" =>
           /\ E'.statusmsg = SaveFailure
           /\ called' = <<>>
           /\ IF LogsToCurrent(Editor(file', others', E'))
              THEN file' = InsertBytes([file EXCEPT !.filename = MessagesName],
                                       SaveFailure \o <<NL>>, 1, Len(SaveFailure) + 1)
              ELSE file'.dirty = file.dirty /\ file'.row = file.row]_vars

\* A save of the *Messages* buffer failed: the buffer has the message as a new line.
C17_MessagesSaveFailed ==
    /\ lastOp = "save_failed"
    /\ E.statusmsg = SaveFailure
    /\ file.filename = MessagesName
    /\ file.numrows = 3
    /\ file.row[2].chars = SaveFailure

\* The bytes of every row of the buffer.
RowChars(f) == [k \in 1..Len(f.row) |-> f.row[k].chars]

\* C21: kill on a buffer of more than one row removes exactly the row the cursor is on
\* and leaves every other row as it was, whatever bytes the rows hold.
C21_KillRemovesCursorRow ==
    [][(lastOp' = "kill" /\ file.numrows > 1 /\ HasRow(file, FileRow(file))) =>
           /\ file'.numrows = file.numrows - 1
           /\ RowChars(file') = RemoveAt(RowChars(file), FileRow(file))]_vars

\* C22: the mark of a buffer is (-1,-1) or a pair (x,y) that was a position of the
\* buffer when mark(x,y) stored it: 0 <= y < numrows and 0 <= x <= the length of row y.
C22_MarkIsValidPosition ==
    [][lastOp' = "mark" =>
           \/ file'.markx = -1 /\ file'.marky = -1
           \/ /\ file'.marky >= 0 /\ file'.marky < file.numrows
              /\ file'.markx >= 0 /\ file'.markx <= RowSize(file, file'.marky)]_vars

\* C23: when raw-mode entry fails (stdin is not a terminal, or the terminal
\* attributes cannot be read or set), start-up ends the process with a non-zero
\* exit status and the main loop is not entered.
C23_RawModeFailureExits ==
    [][(lastOp' = "enableRawMode" /\ ret' = Num(-1)) =>
           (pc' = "exit" /\ tty'.status > 0)]_vars

C26_SymbolicKeysDistinct ==
    [][(/\ lastOp' = "keypress"
        /\ SubSeq(typed', Len(typed) + 1, Len(typed')) \in SymbolicBursts) =>
           /\ editorReadKey(SubSeq(typed', Len(typed) + 1, Len(typed'))).key >= 1000
           /\ \A b \in 0..255 : ret' # Text(OnKeyArgument(b))]_vars

\* C28: after a file is loaded no row of the buffer ends in a carriage return or
\* a line feed.
C28_LoadedRowsStripped ==
    [][lastOp' \in {"open", "reopen"} =>
           \A r \in 1..Len(file'.row) :
               \/ Len(file'.row[r].chars) = 0
               \/ file'.row[r].chars[Len(file'.row[r].chars)] \notin {CR, NL}]_vars

\* C27: the tab_size of every buffer is positive in every state.
C27_TabSizePositive ==
    \A b \in 1..Len(Buffers) : Buffers[b].tab_size > 0

\* The tokenizer's state at the end of row r (from 0) of f, started as
\* editorUpdateSyntax starts it: past the leading whitespace, and inside a comment
\* when the row before has an open comment.
TokenizedRow(f, r) ==
    Tokenize(f.syntax, f.row[r + 1].render,
             [i |-> SkipSpace(f.row[r + 1].render, 0), prev_sep |-> TRUE,
              in_string |-> 0, in_comment |-> EntryInComment(f, f.row[r + 1]),
              hl |-> Repeat(HL_NORMAL, Len(f.row[r + 1].render)),
              ret |-> FALSE, over |-> FALSE])

\* C30: with a syntax configured, a row has an open comment exactly when the
\* tokenizer ends the row with in_comment set.
C30_OpenCommentIsTokenizerState ==
    (file.syntax.on /\ ~file.fault) =>
        \A r \in 0..(file.numrows - 1) :
            editorRowHasOpenComment(file, r) = TokenizedRow(file, r).in_comment

\* C29: with a syntax configured, after every edit every row's hl is what the
\* tokenizer makes of the row when it starts from the open-comment status the row
\* before has now.
C29_HlFollowsPredecessor ==
    (file.syntax.on /\ ~file.fault) =>
        \A r \in 0..(file.numrows - 1) : file.row[r + 1].hl = TokenizedRow(file, r).hl

\* The first row in the order r, r + 1, ..., numrows - 1, 0, ..., r - 1 whose render
\* holds the query, -1 if none does.
FirstMatchFrom(f, query, r) ==
    LET Turns == {n \in 0..(f.numrows - 1) :
                      strstr(f.row[((r + n) % f.numrows) + 1].render, query) >= 0}
    IN IF f.numrows = 0 \/ Turns = {} THEN -1
       ELSE (r + CHOOSE n \in Turns : \A m \in Turns : n <= m) % f.numrows

\* C31: when a key of the find changes the query and a match is shown, the match is
\* on the first matching row at or after the row the cursor was on, wrapping.
C31_QueryEditSearchesFromCursor ==
    [][(/\ pc = "find" /\ pc' = "find"
        /\ sub'.query # sub.query
        /\ sub'.last_match # -1
        /\ HasRow(file, FileRow(file))) =>
           sub'.last_match = FirstMatchFrom(file, sub'.query, FileRow(file))]_vars

\* The key the escape sequences of the terminal stand for; ESC for any other burst
\* that starts with ESC, and the byte itself for a burst of one other byte.
KeyOf(burst) ==
    CASE burst = <<ESC, 91, 65>> -> ARROW_UP
      [] burst = <<ESC, 91, 66>> -> ARROW_DOWN
      [] burst = <<ESC, 91, 67>> -> ARROW_RIGHT
      [] burst = <<ESC, 91, 68>> -> ARROW_LEFT
      [] burst = <<ESC, 91, 72>> -> HOME_KEY
      [] burst = <<ESC, 91, 70>> -> END_KEY
      [] burst = <<ESC, 91, 51, 126>> -> DEL_KEY
      [] burst = <<ESC, 91, 53, 126>> -> PAGE_UP
      [] burst = <<ESC, 91, 54, 126>> -> PAGE_DOWN
      [] burst = <<ESC, 79, 72>> -> HOME_KEY
      [] burst = <<ESC, 79, 70>> -> END_KEY
      [] OTHER -> burst[1]

\* C32: every burst of bytes followed by read timeouts is decoded to a key: the
\* escape sequences to the symbolic keys, an ESC followed by a timeout or by
\* anything else to ESC, and any other byte to itself; the burst is used up.
C32_KeysDecoded ==
    [][lastOp' = "keypress" =>
           /\ editorReadKey(SubSeq(typed', Len(typed) + 1, Len(typed'))).key
                  = KeyOf(SubSeq(typed', Len(typed) + 1, Len(typed')))
           /\ \E s \in Bursts : typed' = typed \o s]_vars

\* A byte and then an unknown escape sequence were read.
C32_UnknownSequenceRead ==
    /\ lastOp = "keypress"
    /\ typed = <<97, ESC, 91, 90>>
    /\ ret = Text(<<ESC>>)

\* Position p is at or before position q, each a <<row, column>>.
NotAfter(p, q) == p[1] < q[1] \/ (p[1] = q[1] /\ p[2] <= q[2])

\* The cell lies in the span from the cursor to the mark, ends included, whichever
\* comes first.
InSpan(f, cell) ==
    LET point == <<f.rowoff + f.cy, f.coloff + f.cx>>
        mark == <<f.marky, f.markx>>
    IN \/ NotAfter(point, cell) /\ NotAfter(cell, mark)
       \/ NotAfter(mark, cell) /\ NotAfter(cell, point)

\* C33: with a mark set, the cells painted as SELECTION are the cells on the screen
\* whose position lies in the span between the cursor and the mark, ends included.
C33_SelectionPaintedOverSpan ==
    (file.markx # -1 /\ file.marky # -1 /\ ~file.fault) =>
        SelectionCells(file) =
            {<<cell[1], file.coloff + cell[2]>> :
                 cell \in {c \in ScreenCells(file) :
                               InSpan(file, <<c[1], file.coloff + c[2]>>)}}

\* C34: after insert_newline with the cursor on a row, delete_char gives back the
\* rows and the cursor's file position there were before the newline.
C34_NewlineThenDeleteIsIdentity ==
    [][(lastOp' = "insert_newline" /\ HasRow(file, FileRow(file)) /\ ~file'.fault) =>
           /\ RowChars(delete_lua(file')) = RowChars(file)
           /\ FileCol(delete_lua(file')) = FileCol(file)
           /\ FileRow(delete_lua(file')) = FileRow(file)]_vars

\* C35: after insert_char of a byte other than newline, with the cursor on a row at
\* a column not beyond its end, delete_char gives back the rows and the cursor's
\* file position there were before the insert.
C35_InsertThenDeleteIsIdentity ==
    [][(/\ lastOp' = "insert_char"
        /\ HasRow(file, FileRow(file))
        /\ FileCol(file) <= RowSize(file, FileRow(file))) =>
           /\ RowChars(delete_lua(file')) = RowChars(file)
           /\ FileCol(delete_lua(file')) = FileCol(file)
           /\ FileRow(delete_lua(file')) = FileRow(file)]_vars

\* The third `a` of a row was typed with the screen scrolled and deleted again.
C35_TypedAndDeletedScrolled ==
    /\ lastOp = "delete_char"
    /\ RowChars(file) = <<<<97, 97>>>>
    /\ FileCol(file) = 2
    /\ file.coloff > 0

\* C36: cursor motion is independent of the viewport: when two buffers have the same
\* rows and the same cursor file position, whatever the split between cx and coloff
\* and between cy and rowoff, the same motion key leaves both at the same file position.
C36_MotionIndependentOfViewport ==
    \A k \in 1..Len(others) :
        (/\ RowChars(others[k]) = RowChars(file)
         /\ FileRow(others[k]) = FileRow(file)
         /\ FileCol(others[k]) = FileCol(file)) =>
            \A key \in {ARROW_LEFT, ARROW_RIGHT, ARROW_UP, ARROW_DOWN} :
                /\ FileRow(editorMoveCursor(others[k], key)) = FileRow(editorMoveCursor(file, key))
                /\ FileCol(editorMoveCursor(others[k], key)) = FileCol(editorMoveCursor(file, key))

\* C37: selection() and cut_selection() terminate for every set mark that differs
\* from the cursor, also a mark beyond the end of its row or of the buffer: the loop
\* of get_selection is never one that does not end.
C37_SelectionTerminates ==
    [][(lastOp' \in {"selection", "cut_selection"} /\ HasSelection(file)) => pc' # "hung"]_vars

\* C38: with a syntax configured, on no row does the tokenizer's position pass the
\* end of the row or is hl written at an index >= rsize, a row whose last byte is a
\* backslash inside an open string included.
C38_TokenizerStaysInRow ==
    file.syntax.on =>
        \A r \in 0..(file.numrows - 1) : ~TokenizedRow(file, r).over

\* C39: search(term) reads only rows of index < numrows, in every cursor state the
\* session reaches, the cursor one row past the last row included.
C39_SearchReadsRowsOfBuffer ==
    [][lastOp' \in {"search_match", "search_none"} => ~file'.fault]_vars

=============================================================================
